---------------------------- MODULE Spec2Model ----------------------------
(***************************************************************************)
(* Birdwatch backend: the weather and eBird tool layer                     *)
(* (backend/app/tools), and the request handlers of backend/app/main.py    *)
(* that reshape upstream or agent output.                                  *)
(*                                                                         *)
(* The process is stateless per request: one request is taken from "idle", *)
(* handled by one action (the whole handler), its outcome is recorded in   *)
(* req / upstream / sent / resp, and Return goes back to "idle".           *)
(*                                                                         *)
(* Numbers: hourly samples are integers; an average of 1..4 samples is     *)
(* kept exactly, in twelfths (Avg12).  Coordinates are integers in tenths  *)
(* of a degree.                                                            *)
(***************************************************************************)
EXTENDS Integers, Sequences, FiniteSets, TLC

VARIABLES
    pc,        \* "idle" | "streaming" | "done"
    op,        \* the operation being handled
    req,       \* its arguments
    upstream,  \* what the outside world (HTTP API, agent) answers
    sent,      \* the outbound HTTP calls made, in order
    resp,      \* what the caller receives
    settings,  \* get_settings(): which API keys the process was started with
    agents,    \* _agents: the cached specialist instance per role, or NoAgent
    team,      \* _team: the cached team, or NoTeam
    built,     \* how many instances get_agent has constructed per role
    calls      \* the get_agent calls in progress, when they run concurrently

vars == <<pc, op, req, upstream, sent, resp, settings, agents, team, built, calls>>

None == "None"

Min(a, b) == IF a < b THEN a ELSE b
Max(a, b) == IF a > b THEN a ELSE b

RECURSIVE Sum(_)
Sum(s) == IF s = <<>> THEN 0 ELSE Head(s) + Sum(Tail(s))

\* Python's s[a:b] for 0 <= a <= b.
Slice(s, a, b) == SubSeq(s, a + 1, Min(b, Len(s)))

(***************************************************************************)
(* Outcomes of one outbound HTTP GET followed by raise_for_status() and    *)
(* json(), and the exception each one raises.                              *)
(***************************************************************************)
HttpFailures == {"transport", "timeout", "status"}
BodyFailures == {"badjson", "badshape"}
Failures     == HttpFailures \cup BodyFailures

\* The class of the exception an upstream failure raises: httpx.HTTPError
\* (TransportError, TimeoutException, HTTPStatusError), ValueError
\* (json.JSONDecodeError) or TypeError/AttributeError (a body of another shape).
ExcClass(failure) ==
    IF failure \in HttpFailures THEN "HTTPError"
    ELSE IF failure = "badjson" THEN "ValueError"
    ELSE "TypeError"

\* except <handler>: Exception catches every class above.
Catches(handler, cls) == handler = "Exception" \/ handler = cls

\* What a function hands to its caller.
Returned(v)  == [raised |-> FALSE, error |-> FALSE, val |-> v]
ErrorText(m) == [raised |-> FALSE, error |-> TRUE,  val |-> m]
Raised(cls)  == [raised |-> TRUE,  error |-> TRUE,  val |-> cls]

\* The except clause of every tool function.
MutToolExcept == "HTTPError"
ToolExcept == "Exception"

\* What the statements of a try block do: the upstream failure's exception, or
\* else the outcome of the block's own statements.
Attempt(up, body) ==
    IF up.outcome = "ok" THEN body ELSE Raised(ExcClass(up.outcome))

\* try: <block> except ToolExcept as e: return f"<prefix>: {e}"
ToolTry(prefix, block) ==
    IF block.raised /\ Catches(ToolExcept, block.val) THEN ErrorText(prefix)
    ELSE block

\* d.get(k, dflt) on a JSON object, modelled as a function of its keys.
Get(d, k, dflt) == IF k \in DOMAIN d THEN d[k] ELSE dflt

(***************************************************************************)
(* WeatherTools.get_birding_conditions                                     *)
(***************************************************************************)
MorningStart == 6
MorningEnd   == 10

Morning(series) == Slice(series, MorningStart, MorningEnd)

\* sum(xs) / len(xs) if xs else default, in twelfths (exact for 1..4 samples).
Avg12(xs, default) ==
    IF xs = <<>> THEN 12 * default ELSE (12 * Sum(xs)) \div Len(xs)

Gt(a12, n) == a12 > 12 * n
Lt(a12, n) == a12 < 12 * n

MutWindPenalty(w) ==
    IF w >= 12 * 30 THEN 30 ELSE IF w >= 12 * 20 THEN 15
    ELSE IF w >= 12 * 10 THEN 5 ELSE 0
WindPenalty(w) ==
    IF Gt(w, 30) THEN 30 ELSE IF Gt(w, 20) THEN 15 ELSE IF Gt(w, 10) THEN 5 ELSE 0

MutPrecipPenalty(p) ==
    IF Gt(p, 70) THEN 40 ELSE IF Gt(p, 40) THEN 20 ELSE IF Gt(p, 20) THEN 20 ELSE 0
PrecipPenalty(p) ==
    IF Gt(p, 70) THEN 40 ELSE IF Gt(p, 40) THEN 20 ELSE IF Gt(p, 20) THEN 10 ELSE 0

CloudPenalty(c) ==
    IF Gt(c, 90) THEN 10 ELSE IF Lt(c, 20) THEN 5 ELSE 0

TempPenalty(t) ==
    IF Lt(t, 0) \/ Gt(t, 35) THEN 15
    ELSE IF Lt(t, 5) \/ Gt(t, 30) THEN 5 ELSE 0

\* score = 100, then the four penalties.
RawScore(avg) ==
    100 - WindPenalty(avg.wind) - PrecipPenalty(avg.precip)
        - CloudPenalty(avg.clouds) - TempPenalty(avg.temp)

\* if in place of elif: every tier a metric passes is charged, and the
\* result is returned as it is.
MutReturnedScore(avg) ==
    100 - (IF Gt(avg.wind, 30) THEN 30 ELSE 0) - (IF Gt(avg.wind, 20) THEN 15 ELSE 0)
        - (IF Gt(avg.wind, 10) THEN 5 ELSE 0)
        - (IF Gt(avg.precip, 70) THEN 40 ELSE 0) - (IF Gt(avg.precip, 40) THEN 20 ELSE 0)
        - (IF Gt(avg.precip, 20) THEN 10 ELSE 0)
        - CloudPenalty(avg.clouds)
        - (IF Lt(avg.temp, 0) \/ Gt(avg.temp, 35) THEN 15 ELSE 0)
        - (IF Lt(avg.temp, 5) \/ Gt(avg.temp, 30) THEN 5 ELSE 0)
\* "score": max(0, min(100, score))
ReturnedScore(avg) == Max(0, Min(100, RawScore(avg)))

MutRating(score) ==
    IF score > 80 THEN "Excellent" ELSE IF score > 60 THEN "Good"
    ELSE IF score > 40 THEN "Fair" ELSE "Poor"
Rating(score) ==
    IF score >= 80 THEN "Excellent" ELSE IF score >= 60 THEN "Good"
    ELSE IF score >= 40 THEN "Fair" ELSE "Poor"

RecWind   == "High winds - look for sheltered areas and woods"
RecRain   == "Rain likely - bring waterproof gear, birds may be less active"
RecClear  == "Clear skies - best viewing around dawn/dusk to avoid glare"
RecCool   == "Cool morning - birds may be active feeding early"
RecWarm   == "Warm day - focus on early morning and late afternoon"
RecDefault == "Great conditions for birding!"

Opt(cond, msg) == IF cond THEN <<msg>> ELSE <<>>

MutRecommendations(avg) ==
    Opt(Gt(avg.wind, 20), RecWind) \o Opt(Gt(avg.precip, 40), RecRain)
    \o Opt(Lt(avg.clouds, 20), RecClear) \o Opt(Lt(avg.temp, 10), RecCool)
    \o Opt(Gt(avg.temp, 30), RecWarm)
Recommendations(avg) ==
    Opt(Gt(avg.wind, 20), RecWind) \o Opt(Gt(avg.precip, 40), RecRain)
    \o Opt(Lt(avg.clouds, 20), RecClear) \o Opt(Lt(avg.temp, 10), RecCool)
    \o Opt(Gt(avg.temp, 25), RecWarm)

\* round(avg, 1), in tenths: the nearest tenth, a tie going to the even one
\* (a tie is a multiple of 0.05 with an exact binary form: x.25 or x.75).
Round1(a12) ==
    LET q == (a12 * 5) \div 6
        r == (a12 * 5) - 6 * q
    IN  IF r < 3 THEN q ELSE IF r > 3 THEN q + 1
        ELSE IF q % 2 = 0 THEN q ELSE q + 1

\* daily.get(key, [dflt])[0] if daily.get(key) else dflt
FirstOr(list, dflt) == IF list = <<>> THEN dflt ELSE list[1]

Averages(hourly) ==
    [temp   |-> Avg12(Morning(Get(hourly, "temperature_2m", <<>>)), 15),
     wind   |-> Avg12(Morning(Get(hourly, "wind_speed_10m", <<>>)), 10),
     precip |-> Avg12(Morning(Get(hourly, "precipitation_probability", <<>>)), 0),
     clouds |-> Avg12(Morning(Get(hourly, "cloud_cover", <<>>)), 50)]

ConditionsBody(data) ==
    LET hourly == Get(data, "hourly", <<>>)
        daily  == Get(data, "daily", <<>>)
        avg    == Averages(hourly)
        recommendations == Recommendations(avg)
    IN  [score   |-> ReturnedScore(avg),
         rating  |-> Rating(RawScore(avg)),
         conditions |-> [temperature_c        |-> Round1(avg.temp),
                         wind_speed_kmh       |-> Round1(avg.wind),
                         precipitation_chance |-> Round1(avg.precip),
                         cloud_cover_percent  |-> Round1(avg.clouds)],
         sunrise |-> FirstOr(Get(daily, "sunrise", <<>>), "06:00"),
         sunset  |-> FirstOr(Get(daily, "sunset", <<>>), "18:00"),
         recommendations |->
             IF recommendations # <<>> THEN recommendations ELSE <<RecDefault>>]

get_birding_conditions(up) ==
    ToolTry("Error analyzing birding conditions",
            Attempt(up, Returned(ConditionsBody(up.data))))

(***************************************************************************)
(* WeatherTools.get_weather_forecast                                       *)
(***************************************************************************)
ForecastDays == 7

\* hourly.get(key, [dflt])[0]: the first sample, dflt when the key is absent,
\* IndexError when the list is there and empty.
FirstSample(hourly, key, dflt) == Get(hourly, key, <<dflt>>)

\* daily.get(key, [])[i] if i < len(daily.get(key, [])) else dflt   (i from 1)
DayValue(daily, key, i, dflt) ==
    IF i <= Len(Get(daily, key, <<>>)) THEN Get(daily, key, <<>>)[i] ELSE dflt

ForecastKeys ==
    {"temperature_2m", "precipitation_probability", "wind_speed_10m",
     "cloud_cover", "visibility"}

ForecastBody(data) ==
    LET hourly == Get(data, "hourly", <<>>)
        daily  == Get(data, "daily", <<>>)
        n      == Min(ForecastDays, Len(Get(daily, "time", <<>>)))
    IN  IF \E k \in ForecastKeys : FirstSample(hourly, k, None) = <<>>
        THEN Raised("IndexError")
        ELSE Returned(
          [current |->
             [temperature_c |-> FirstSample(hourly, "temperature_2m", None)[1],
              precipitation_probability |->
                  FirstSample(hourly, "precipitation_probability", 0)[1],
              wind_speed_kmh      |-> FirstSample(hourly, "wind_speed_10m", 0)[1],
              cloud_cover_percent |-> FirstSample(hourly, "cloud_cover", 0)[1],
              visibility_m        |-> FirstSample(hourly, "visibility", 0)[1]],
           forecast |->
             [i \in 1..n |->
                [date    |-> DayValue(daily, "time", i, None),
                 sunrise |-> DayValue(daily, "sunrise", i, None),
                 sunset  |-> DayValue(daily, "sunset", i, None),
                 precipitation_mm |-> DayValue(daily, "precipitation_sum", i, 0),
                 max_wind_kmh     |-> DayValue(daily, "wind_speed_10m_max", i, 0)]],
           timezone |-> Get(data, "timezone", "Unknown")])

get_weather_forecast(up) ==
    ToolTry("Error fetching weather", Attempt(up, ForecastBody(up.data)))

(***************************************************************************)
(* EBirdTools                                                              *)
(***************************************************************************)
MaxDistKm   == 50
MaxBackDays == 30

MutClampDist(distance_km) == distance_km
ClampDist(distance_km) == Min(distance_km, MaxDistKm)

ClampBack(back_days) == Min(back_days, MaxBackDays)

MapSeq(s, F(_)) == [i \in 1..Len(s) |-> F(s[i])]

Observation(obs) ==
    [species         |-> Get(obs, "comName", "Unknown"),
     scientific_name |-> Get(obs, "sciName", ""),
     location        |-> Get(obs, "locName", "Unknown location"),
     date            |-> Get(obs, "obsDt", ""),
     count           |-> Get(obs, "howMany", "X"),
     lat             |-> Get(obs, "lat", None),
     lng             |-> Get(obs, "lng", None)]

NotableObservation(obs) ==
    [species         |-> Get(obs, "comName", "Unknown"),
     scientific_name |-> Get(obs, "sciName", ""),
     location        |-> Get(obs, "locName", "Unknown location"),
     date            |-> Get(obs, "obsDt", ""),
     count           |-> Get(obs, "howMany", "X"),
     lat             |-> Get(obs, "lat", None),
     lng             |-> Get(obs, "lng", None),
     is_reviewed     |-> Get(obs, "obsReviewed", FALSE),
     is_valid        |-> Get(obs, "obsValid", FALSE)]

SpeciesObservation(obs) ==
    [species  |-> Get(obs, "comName", "Unknown"),
     location |-> Get(obs, "locName", "Unknown location"),
     date     |-> Get(obs, "obsDt", ""),
     count    |-> Get(obs, "howMany", "X"),
     lat      |-> Get(obs, "lat", None),
     lng      |-> Get(obs, "lng", None)]

Hotspot(hs) ==
    [name        |-> Get(hs, "locName", "Unknown"),
     hotspot_id  |-> Get(hs, "locId", ""),
     lat         |-> Get(hs, "lat", None),
     lng         |-> Get(hs, "lng", None),
     country     |-> Get(hs, "countryCode", ""),
     region      |-> Get(hs, "subnational1Code", ""),
     species_count      |-> Get(hs, "numSpeciesAllTime", 0),
     latest_observation |-> Get(hs, "latestObsDt", "")]

EBirdCall(path, params) == [url |-> path, params |-> params]

RecentCall(r) ==
    EBirdCall("data/obs/{region}/recent",
              [back |-> ClampBack(r.back_days), maxResults |-> r.max_results])
get_recent_observations(r, up) ==
    ToolTry("Error fetching observations",
            Attempt(up, Returned(MapSeq(up.data, Observation))))

NotableCall(r) ==
    EBirdCall("data/obs/{region}/recent/notable",
              [back |-> ClampBack(r.back_days), maxResults |-> r.max_results])
get_notable_observations(r, up) ==
    ToolTry("Error fetching notable observations",
            Attempt(up, Returned(MapSeq(up.data, NotableObservation))))

HotspotsCall(r) ==
    EBirdCall("ref/hotspot/geo",
              [lat |-> r.lat, lng |-> r.lng, dist |-> ClampDist(r.distance_km)])
MutNearbyHotspots(r, up) ==
    ToolTry("Error fetching hotspots",
            Attempt(up, Returned(MapSeq(Slice(up.data, 0, r.max_results + 1), Hotspot))))
get_nearby_hotspots(r, up) ==
    ToolTry("Error fetching hotspots",
            Attempt(up, Returned(MapSeq(Slice(up.data, 0, r.max_results), Hotspot))))

SpeciesCall(r) ==
    EBirdCall("data/obs/{region}/recent/{species}",
              [back |-> ClampBack(r.back_days), maxResults |-> r.max_results])
get_species_observations(r, up) ==
    ToolTry("Error fetching species observations",
            Attempt(up, Returned(MapSeq(up.data, SpeciesObservation))))

RegionInfoCall(r) == EBirdCall("ref/region/info/{region}", <<>>)
get_region_info(r, up) ==
    ToolTry("Error fetching region info",
            Attempt(up, Returned([name        |-> Get(up.data, "result", "Unknown"),
                                  region_code |-> r.region_code,
                                  bounds      |-> Get(up.data, "bounds", <<>>)])))

HotspotInfoCall(r) == EBirdCall("ref/hotspot/info/{hotspot}", <<>>)
get_hotspot_info(r, up) ==
    ToolTry("Error fetching hotspot info",
            Attempt(up, Returned([name       |-> Get(up.data, "name", "Unknown"),
                                  hotspot_id |-> r.hotspot_id,
                                  lat        |-> Get(up.data, "latitude", None),
                                  lng        |-> Get(up.data, "longitude", None),
                                  country    |-> Get(up.data, "countryCode", ""),
                                  region     |-> Get(up.data, "subnational1Code", ""),
                                  species_count |->
                                      Get(up.data, "numSpeciesAllTime", 0)])))

(***************************************************************************)
(* get_rare_birds_nearby: the distance and the sort                        *)
(***************************************************************************)
\* The largest m in lo..hi with m * m <= n.
RECURSIVE IsqrtIn(_, _, _)
IsqrtIn(n, lo, hi) ==
    IF lo = hi THEN lo
    ELSE LET mid == (lo + hi + 1) \div 2
         IN  IF mid * mid <= n THEN IsqrtIn(n, mid, hi) ELSE IsqrtIn(n, lo, mid - 1)

Isqrt(n) == IsqrtIn(n, 0, Min(n, 46340))

\* round(((obs.get("lat", lat) - lat) ** 2 + (obs.get("lng", lng) - lng) ** 2)
\*       ** 0.5 * 111, 1)
\* in tenths of a km, for coordinates in tenths of a degree: the integer
\* nearest to sqrt(d2) * 111 = sqrt(d2 * 12321), which is never a tie.
DistanceKm(obs, lat, lng) ==
    LET dlat == Get(obs, "lat", lat) - lat
        dlng == Get(obs, "lng", lng) - lng
        d2   == dlat * dlat + dlng * dlng
    IN  (Isqrt(4 * d2 * 111 * 111) + 1) \div 2

RareObservation(obs, lat, lng) ==
    [species         |-> Get(obs, "comName", "Unknown"),
     scientific_name |-> Get(obs, "sciName", ""),
     location        |-> Get(obs, "locName", "Unknown location"),
     date            |-> Get(obs, "obsDt", ""),
     count           |-> Get(obs, "howMany", "X"),
     lat             |-> Get(obs, "lat", None),
     lng             |-> Get(obs, "lng", None),
     distance_km     |-> DistanceKm(obs, lat, lng)]

\* The sort key: x.get("distance_km", 999), in tenths of a km.
SortKey(x) == Get(x, "distance_km", 9990)

\* x put into the sorted list s before the elements that sort at or after it.
MutInsertByKey(s, x) ==
    LET k == Cardinality({i \in 1..Len(s) : SortKey(s[i]) < SortKey(x)})
    IN  SubSeq(s, 1, k) \o <<x>> \o SubSeq(s, k + 1, Len(s))
\* x put into the sorted list s behind every element that sorts at or before
\* it: list.sort is stable.
InsertByKey(s, x) ==
    LET k == Cardinality({i \in 1..Len(s) : SortKey(s[i]) <= SortKey(x)})
    IN  SubSeq(s, 1, k) \o <<x>> \o SubSeq(s, k + 1, Len(s))

RECURSIVE SortInto(_, _)
SortInto(done, rest) ==
    IF rest = <<>> THEN done
    ELSE SortInto(InsertByKey(done, Head(rest)), Tail(rest))

\* results.sort(key=lambda x: x.get("distance_km", 999))
SortByDistance(results) == SortInto(<<>>, results)

RareNearbyCall(r) ==
    EBirdCall("data/obs/geo/recent/notable",
              [lat |-> r.lat, lng |-> r.lng, dist |-> ClampDist(r.distance_km),
               back |-> ClampBack(r.back_days)])
get_rare_birds_nearby(r, up) ==
    ToolTry("Error fetching rare birds",
            Attempt(up, Returned(SortByDistance(
                [i \in 1..Len(up.data) |->
                    RareObservation(up.data[i], r.lat, r.lng)]))))

(***************************************************************************)
(* get_taxonomy.  A name is a sequence of characters.                      *)
(***************************************************************************)
TaxSearchCap == 20
TaxCap       == 50

\* str.lower(), on the characters the model's names use.
LowerChar(c) ==
    CASE c = "C" -> "c" [] c = "A" -> "a" [] c = "R" -> "r" [] c = "D" -> "d"
      [] OTHER -> c
Lower(name) == [i \in 1..Len(name) |-> LowerChar(name[i])]

\* sub in name
Contains(sub, name) ==
    \E i \in 0..(Len(name) - Len(sub)) : SubSeq(name, i + 1, i + Len(sub)) = sub

TaxonEntry(t) ==
    [common_name       |-> Get(t, "comName", <<>>),
     scientific_name   |-> Get(t, "sciName", <<>>),
     species_code      |-> Get(t, "speciesCode", ""),
     category          |-> Get(t, "category", ""),
     order             |-> Get(t, "order", ""),
     family            |-> Get(t, "familyComName", ""),
     family_scientific |-> Get(t, "familySciName", "")]

MutTaxonMatches(t, search_query) ==
    \/ Contains(search_query, Get(t, "comName", <<>>))
    \/ Contains(search_query, Get(t, "sciName", <<>>))
\* search_lower in t.get("comName", "").lower() or ... t.get("sciName", "").lower()
TaxonMatches(t, search_query) ==
    \/ Contains(Lower(search_query), Lower(Get(t, "comName", <<>>)))
    \/ Contains(Lower(search_query), Lower(Get(t, "sciName", <<>>)))

TaxonomyCall(r) ==
    EBirdCall("ref/taxonomy/ebird",
              IF r.species_codes # "" THEN [fmt |-> "json", species |-> r.species_codes]
              ELSE [fmt |-> "json"])
get_taxonomy(r, up) ==
    LET taxonomy ==
            IF r.search_query # <<>>
            THEN Slice(SelectSeq(up.data, LAMBDA t : TaxonMatches(t, r.search_query)),
                       0, TaxSearchCap)
            ELSE up.data
    IN  ToolTry("Error fetching taxonomy",
                Attempt(up, Returned(MapSeq(Slice(taxonomy, 0, TaxCap), TaxonEntry))))

(***************************************************************************)
(* Request handlers of main.py that call eBird directly                    *)
(***************************************************************************)
DirectCap == 20

\* What a handler makes of a request: a body, an HTTPException, or an exception
\* that leaves the handler.
Response(body)       == [status |-> 200,  escaped |-> FALSE, body |-> body]
MutHTTPException(c, d) == [status |-> 400, escaped |-> FALSE, body |-> d]
HTTPException(c, d)  == [status |-> c,    escaped |-> FALSE, body |-> d]
Escaped(cls)         == [status |-> 500,  escaped |-> TRUE,  body |-> cls]

\* if not settings.ebird_api_key: / if not settings.openai_api_key:
MutMissingKey(keys, field) == FALSE
MissingKey(keys, field) == ~keys[field]

NoEBirdKey == "EBIRD_API_KEY not configured. Please add it to your .env file."

\* try: <block> except httpx.HTTPError as e: raise HTTPException(500, ...)
DirectTry(block) ==
    IF ~block.raised THEN Response(block.val)
    ELSE IF Catches("HTTPError", block.val) THEN HTTPException(500, "eBird API error")
    ELSE Escaped(block.val)

DirectHotspotsCall(r) ==
    EBirdCall("ref/hotspot/geo",
              [lat |-> r.lat, lng |-> r.lng, dist |-> ClampDist(r.distance_km)])

DirectHotspot(hs) ==
    [name        |-> Get(hs, "locName", "Unknown"),
     hotspot_id  |-> Get(hs, "locId", ""),
     lat         |-> Get(hs, "lat", None),
     lng         |-> Get(hs, "lng", None),
     country     |-> Get(hs, "countryCode", ""),
     region      |-> Get(hs, "subnational1Code", ""),
     species_count |-> Get(hs, "numSpeciesAllTime", 0)]

\* GET /api/locations/hotspots, once the key is known to be set
api_hotspots(r, up) ==
    DirectTry(Attempt(up,
        LET results == MapSeq(Slice(up.data, 0, DirectCap), DirectHotspot)
        IN  Returned([hotspots |-> results, count |-> Len(results)])))

DirectRareCall(r) ==
    EBirdCall("data/obs/geo/recent/notable",
              [lat |-> r.lat, lng |-> r.lng, dist |-> ClampDist(r.distance_km),
               back |-> ClampBack(r.days)])

\* GET /api/locations/rare-birds, once the key is known to be set.  The
\* markdown is kept as the numbers and entries it prints.
api_rare_birds(r, up) ==
    DirectTry(Attempt(up,
        LET results == MapSeq(Slice(up.data, 0, DirectCap), Observation)
        IN  Returned([rare_birds |-> [found   |-> Len(up.data),
                                      within  |-> r.distance_km,
                                      entries |-> MapSeq(results, LAMBDA b : b.species)],
                      birds |-> results,
                      count |-> Len(results)])))

AlertsCall(r) ==
    EBirdCall("data/obs/geo/recent/notable",
              [lat |-> r.lat, lng |-> r.lng, dist |-> ClampDist(r.distance_km),
               back |-> 7])

\* if bird_lat and bird_lng: both there, neither None nor 0.
HasCoordinates(bird) ==
    /\ "lat" \in DOMAIN bird /\ bird.lat # 0
    /\ "lng" \in DOMAIN bird /\ bird.lng # 0

NoKeys ==
    "No API keys configured. Please set EBIRD_API_KEY and/or OPENAI_API_KEY in your .env file."

\* GET /api/community/alerts.  ebird is the answer to the direct call (used
\* when the eBird key is set), agent the outcome of the Community agent's run
\* (used when the direct call gave nothing and the OpenAI key is set).
api_alerts(r, keys, ebird, agent) ==
    LET rare_birds_data ==
            IF keys.ebird_api_key /\ ebird.outcome = "ok" THEN ebird.data ELSE <<>>
        shown == Slice(rare_birds_data, 0, DirectCap)
    IN  IF keys.ebird_api_key /\ ebird.outcome = "badshape"
        THEN Escaped("TypeError")
        ELSE IF rare_birds_data # <<>>
        THEN Response(
               [alerts |-> [within  |-> r.distance_km,
                            found   |-> Len(rare_birds_data),
                            entries |-> MapSeq(shown,
                                LAMBDA b : Get(b, "comName", "Unknown"))],
                birds  |-> MapSeq(SelectSeq(shown, HasCoordinates), Observation),
                count  |-> Len(rare_birds_data),
                agent  |-> "eBird API Direct"])
        ELSE IF keys.openai_api_key
        THEN IF agent.outcome = "ok"
             THEN Response([alerts |-> agent.text,
                            agent  |-> "Community Connector Agent"])
             ELSE HTTPException(500, "Agent error")
        ELSE HTTPException(500, NoKeys)

\* The calls the alerts handler makes, in order.
MutAlertsSent(r, keys, ebird) ==
    (IF keys.ebird_api_key THEN <<AlertsCall(r)>> ELSE <<>>)
    \o (IF keys.openai_api_key /\ ~(keys.ebird_api_key /\ ebird.outcome = "badshape")
        THEN <<[url |-> "agent.run", params |-> [agent |-> "community"]]>> ELSE <<>>)
AlertsSent(r, keys, ebird) ==
    (IF keys.ebird_api_key THEN <<AlertsCall(r)>> ELSE <<>>)
    \o (IF keys.openai_api_key
            /\ ~(keys.ebird_api_key /\ ebird.outcome = "ok" /\ ebird.data # <<>>)
            /\ ~(keys.ebird_api_key /\ ebird.outcome = "badshape")
        THEN <<[url |-> "agent.run", params |-> [agent |-> "community"]]>> ELSE <<>>)

(***************************************************************************)
(* Agent replies as text.  A text is a sequence of tokens: punctuation,    *)
(* JSON string and number literals, null, prose words, white space and     *)
(* the code fence (three backquotes).                                      *)
(***************************************************************************)
P(c)   == [k |-> "punct", s |-> c]
S(str) == [k |-> "str",   s |-> str]
N(num) == [k |-> "num",   s |-> num]
Word(w) == [k |-> "word", s |-> w]
Null   == [k |-> "null",  s |-> "null"]
Ws     == [k |-> "ws",    s |-> " "]
Fence  == [k |-> "fence", s |-> "fence"]

\* The first position from i on that holds no white space (Len + 1 if none).
RECURSIVE SkipWs(_, _)
SkipWs(toks, i) ==
    IF i <= Len(toks) /\ toks[i].k = "ws" THEN SkipWs(toks, i + 1) ELSE i

RECURSIVE Strip(_)
\* str.strip()
Strip(toks) ==
    IF toks = <<>> THEN toks
    ELSE IF toks[1].k = "ws" THEN Strip(Tail(toks))
    ELSE IF toks[Len(toks)].k = "ws" THEN Strip(SubSeq(toks, 1, Len(toks) - 1))
    ELSE toks

\* Parsed JSON values.
StrV(x)    == [t |-> "str",  s |-> x]
NumV(x)    == [t |-> "num",  s |-> x]
NullV      == [t |-> "null", s |-> "None"]
ListV(xs)  == [t |-> "list", items |-> xs]
DictV(d)   == [t |-> "dict", d |-> d]

Put(d, key, v) == [x \in DOMAIN d \cup {key} |-> IF x = key THEN v ELSE d[x]]

ParseOk(v, next) == [ok |-> TRUE, v |-> v, next |-> next]
ParseError       == [ok |-> FALSE, v |-> NullV, next |-> 0]

Is(toks, i, c) == i <= Len(toks) /\ toks[i].k = "punct" /\ toks[i].s = c

\* The JSON decoder: one value from position i on, and where it ends.
RECURSIVE ParseValue(_, _), ParseElements(_, _, _), ParseMembers(_, _, _)
ParseValue(toks, from) ==
    LET i == SkipWs(toks, from) IN
    IF i > Len(toks) THEN ParseError
    ELSE IF toks[i].k = "str"  THEN ParseOk(StrV(toks[i].s), i + 1)
    ELSE IF toks[i].k = "num"  THEN ParseOk(NumV(toks[i].s), i + 1)
    ELSE IF toks[i].k = "null" THEN ParseOk(NullV, i + 1)
    ELSE IF Is(toks, i, "[") THEN
        IF Is(toks, SkipWs(toks, i + 1), "]")
        THEN ParseOk(ListV(<<>>), SkipWs(toks, i + 1) + 1)
        ELSE ParseElements(toks, i + 1, <<>>)
    ELSE IF Is(toks, i, "{") THEN
        IF Is(toks, SkipWs(toks, i + 1), "}")
        THEN ParseOk(DictV(<<>>), SkipWs(toks, i + 1) + 1)
        ELSE ParseMembers(toks, i + 1, <<>>)
    ELSE ParseError

ParseElements(toks, from, acc) ==
    LET r == ParseValue(toks, from) IN
    IF ~r.ok THEN ParseError
    ELSE LET j == SkipWs(toks, r.next) IN
         IF Is(toks, j, ",") THEN ParseElements(toks, j + 1, Append(acc, r.v))
         ELSE IF Is(toks, j, "]") THEN ParseOk(ListV(Append(acc, r.v)), j + 1)
         ELSE ParseError

ParseMembers(toks, from, d) ==
    LET k == SkipWs(toks, from)
        c == SkipWs(toks, k + 1)
    IN  IF ~(k <= Len(toks) /\ toks[k].k = "str" /\ Is(toks, c, ":")) THEN ParseError
        ELSE LET r == ParseValue(toks, c + 1) IN
             IF ~r.ok THEN ParseError
             ELSE LET j == SkipWs(toks, r.next) IN
                  IF Is(toks, j, ",")
                  THEN ParseMembers(toks, j + 1, Put(d, toks[k].s, r.v))
                  ELSE IF Is(toks, j, "}")
                  THEN ParseOk(DictV(Put(d, toks[k].s, r.v)), j + 1)
                  ELSE ParseError

\* json.loads(text): one value and nothing but white space after it;
\* ok = FALSE stands for json.JSONDecodeError.
json_loads(toks) ==
    LET r == ParseValue(toks, 1) IN
    IF r.ok /\ SkipWs(toks, r.next) > Len(toks) THEN r ELSE ParseError

Positions(toks, Test(_)) == {i \in 1..Len(toks) : Test(toks[i])}
SetMin(xs) == CHOOSE x \in xs : \A y \in xs : x <= y
SetMax(xs) == CHOOSE x \in xs : \A y \in xs : x >= y

NoMatch == [found |-> FALSE, toks |-> <<>>]

\* re.search for \{[\s\S]*\} in text: from the first "{" to the last "}".
BraceSpan(toks) ==
    LET opens  == Positions(toks, LAMBDA t : t.k = "punct" /\ t.s = "{")
        closes == Positions(toks, LAMBDA t : t.k = "punct" /\ t.s = "}")
    IN  IF opens = {} \/ {j \in closes : j > SetMin(opens)} = {} THEN NoMatch
        ELSE [found |-> TRUE, toks |-> SubSeq(toks, SetMin(opens), SetMax(closes))]

\* re.search for: fence, (?:json)?, \s*, ([\s\S]*?), \s*, fence.  Group 1: what stands
\* between the first fence (and a "json" right after it) and the next fence,
\* without the white space around it.
FencedBlock(toks) ==
    LET fences == Positions(toks, LAMBDA t : t.k = "fence") IN
    IF Cardinality(fences) < 2 THEN NoMatch
    ELSE LET a == SetMin(fences)
             b == SetMin(fences \ {a})
             tagged == a + 1 < b /\ toks[a + 1].k = "word" /\ toks[a + 1].s = "json"
         IN  [found |-> TRUE,
              toks |-> Strip(SubSeq(toks, IF tagged THEN a + 2 ELSE a + 1, b - 1))]

\* bool(v)
Truthy(v) ==
    CASE v.t = "str"  -> v.s # ""
      [] v.t = "num"  -> v.s # "0"
      [] v.t = "null" -> FALSE
      [] v.t = "list" -> v.items # <<>>
      [] v.t = "dict" -> DOMAIN v.d # {}

\* str(v); the model's strings are shorter than the cuts [:200], [:300] and
\* carry no white space at their ends
Str(v) == IF v.t \in {"str", "num", "null"} THEN v.s ELSE "<repr>"

(***************************************************************************)
(* GET /api/community/tours                                                *)
(***************************************************************************)
ToursCap == 10

ValidTour(t) ==
    /\ t.t = "dict"
    /\ Truthy(Get(t.d, "title", NullV))
    /\ Truthy(Get(t.d, "url", NullV))

CleanTour(t) ==
    [title       |-> Str(Get(t.d, "title", StrV(""))),
     location    |-> Str(Get(t.d, "location", StrV(""))),
     url         |-> Str(Get(t.d, "url", StrV(""))),
     description |-> IF Truthy(Get(t.d, "description", NullV))
                     THEN Str(Get(t.d, "description", StrV(""))) ELSE None]

ToursBody(valid_tours, location) ==
    Response([tours |-> valid_tours, location |-> location,
              agent |-> "Birding Tours Agent"])

find_birding_tours(location, agent) ==
    IF agent.outcome # "ok" THEN HTTPException(500, "Agent error")
    ELSE
    LET text       == Strip(agent.text)
        json_match == BraceSpan(text)
        parsed     == json_loads(json_match.toks)
        tours      == Get(parsed.v.d, "tours", ListV(<<>>))
    IN  IF ~json_match.found \/ ~parsed.ok THEN ToursBody(<<>>, location)
        ELSE IF tours.t = "list"
        THEN ToursBody(MapSeq(SelectSeq(Slice(tours.items, 0, ToursCap), ValidTour),
                              CleanTour), location)
        ELSE IF tours.t = "str" THEN ToursBody(<<>>, location)
        ELSE HTTPException(500, "Agent error")

(***************************************************************************)
(* POST /api/lifelist/area-based-targets                                   *)
(***************************************************************************)
NoSpecies == "At least one species is required. Add birds to your life list first."

AreaBody(birds, r) ==
    Response([birds |-> birds, species_analyzed |-> Len(r.species),
              agent |-> "Life List Coach"])

get_area_based_targets(r, agent) ==
    IF r.species = <<>> THEN HTTPException(400, NoSpecies)
    ELSE IF agent.outcome # "ok" THEN HTTPException(500, "Agent error")
    ELSE
    LET stripped   == Strip(agent.text)
        json_match == FencedBlock(stripped)
        text       == IF json_match.found THEN Strip(json_match.toks) ELSE stripped
        parsed     == json_loads(text)
        data       == parsed.v
        birds      == Get(data.d, "birds", ListV(<<>>))
    IN  IF ~parsed.ok
        THEN Response([birds |-> ListV(<<>>), recommendations |-> agent.text,
                       species_analyzed |-> Len(r.species),
                       agent |-> "Life List Coach"])
        ELSE IF data.t # "dict" THEN HTTPException(500, "Agent error")
        ELSE IF birds.t = "list"
        THEN AreaBody(ListV(Slice(birds.items, 0, r.num_targets)), r)
        ELSE IF birds.t = "str" THEN AreaBody(birds, r)
        ELSE HTTPException(500, "Agent error")

(***************************************************************************)
(* Upstream bodies of the eBird API                                        *)
(***************************************************************************)
MaxObs == 3

\* A JSON object: the keys of place, and comName.
Named(name, place) ==
    [k \in DOMAIN place \cup {"comName"} |->
        IF k = "comName" THEN name ELSE place[k]]

BirdName(i) == <<"o1", "o2", "o3", "o4", "o5">>[((i - 1) % 5) + 1]

\* Where a sighting is, in tenths of a degree; some carry no coordinates.
Places ==
    {[lat |-> 1, lng |-> 0], [lat |-> 2, lng |-> 0], [lat |-> 1, lng |-> 1],
     [lat |-> 4, lng |-> 4], [howMany |-> 2], [lng |-> 2]}

\* Every upstream list of up to MaxObs sightings, the i-th named BirdName(i).
Sightings ==
    UNION {{[i \in 1..n |-> Named(BirdName(i), f[i])] : f \in [1..n -> Places]} :
            n \in 0..MaxObs}

PlaceAt(i) ==
    <<[lat |-> 1, lng |-> 0], [howMany |-> 2], [lat |-> 0, lng |-> 3],
      [lat |-> 2, lng |-> 2, howMany |-> 1]>>[((i - 1) % 4) + 1]

\* The upstream list of n sightings, hotspots or taxa.
ListOf(n) == [i \in 1..n |-> Named(BirdName(i), PlaceAt(i))]

ListLengths == {0, 1, MaxObs, DirectCap + 1}
Lists == {ListOf(n) : n \in ListLengths}

QueryPoints   == {[lat |-> 1, lng |-> 0]}
DistRequests  == {1, 25, 49, 50, 51, 80}
BackRequests  == {1, 7, 30, 31, 45}
MaxResultsRequests == {0, 2, 100}

TaxonNames == << <<"C", "a", "r", "d">>, <<"c", "r", "a">>, <<"R", "A", "C">> >>
Taxon(i) ==
    IF i % 4 = 0 THEN [speciesCode |-> "sp"]
    ELSE [comName |-> TaxonNames[(i % 3) + 1], sciName |-> TaxonNames[((i + 1) % 3) + 1],
          speciesCode |-> "sp"]
TaxaLengths == {0, MaxObs, TaxSearchCap + TaxSearchCap, TaxCap + MaxObs}
Taxa == {[i \in 1..n |-> Taxon(i)] : n \in TaxaLengths}
SearchQueries == {<<>>, <<"c", "A">>, <<"r", "d">>, <<"x">>}

Infos == {<<>>, [result |-> "Region", name |-> "Spot", latitude |-> 1, longitude |-> 2]}

AgentRuns == {[outcome |-> "ok", text |-> "reply"], [outcome |-> "raise", text |-> ""]}
Keys == [ebird_api_key : BOOLEAN, openai_api_key : BOOLEAN]

(***************************************************************************)
(* Upstream bodies of the weather API.  Night holds the samples of hours   *)
(* 0..5, a window the samples from hour 6 on, Later those after hour 9.    *)
(***************************************************************************)
HoursAfter == 2

Night == [i \in 1..MorningStart |-> 99]
Later == [i \in 1..HoursAfter |-> 77]
Flat(v) == [i \in 1..(MorningEnd - MorningStart) |-> v]

\* An hourly series: absent or empty, or Night, the window, and the rest of
\* the day when the window is whole.
SeriesOf(windows) ==
    {<<>>} \cup
    {Night \o w \o (IF Len(w) = MorningEnd - MorningStart THEN Later ELSE <<>>) :
        w \in windows}

WindWindows ==
    {Flat(v) : v \in {5, 10, 20, 30, 35}} \cup {<<20, 21>>, <<31>>, <<25, 5, 5>>}
PrecipWindows ==
    {Flat(v) : v \in {0, 20, 40, 70, 80}} \cup {<<40, 41>>, <<90, 0, 0>>}
CloudWindows ==
    {Flat(v) : v \in {10, 20, 50, 90, 95}} \cup {<<19, 20>>}
TempWindows ==
    {Flat(v) : v \in {-5, 0, 5, 10, 18, 25, 30, 35, 40}} \cup
    {<<-1, 0>>, <<4, 5, 5, 5>>, <<25, 26>>}

ConditionsBodies ==
    {[hourly |-> [temperature_2m |-> t, wind_speed_10m |-> w,
                  precipitation_probability |-> p, cloud_cover |-> c],
      daily |-> [sunrise |-> <<"05:42">>, sunset |-> <<"20:31">>]] :
        t \in SeriesOf(TempWindows), w \in SeriesOf(WindWindows) \cup {<<1, 2, 3>>},
        p \in SeriesOf(PrecipWindows), c \in SeriesOf(CloudWindows)}
    \cup {<<>>, [hourly |-> <<>>, daily |-> [sunrise |-> <<>>]],
          [hourly |-> [wind_speed_10m |-> Night \o Flat(35) \o Later]]}

\* A few bodies for the handler that makes both calls.
FewConditionsBodies ==
    {<<>>,
     [hourly |-> [temperature_2m |-> Night \o Flat(18) \o Later,
                  wind_speed_10m |-> Night \o Flat(5) \o Later,
                  precipitation_probability |-> Night \o Flat(0) \o Later,
                  cloud_cover |-> Night \o Flat(50) \o Later],
      daily |-> [sunrise |-> <<"05:42">>, sunset |-> <<"20:31">>]]}

ForecastBodies ==
    {<<>>,
     [hourly |-> [temperature_2m |-> <<>>]],
     [hourly |-> [temperature_2m |-> <<12, 13>>, wind_speed_10m |-> <<8, 9>>],
      daily  |-> [time |-> <<"d1", "d2", "d3">>, sunrise |-> <<"05:42">>],
      timezone |-> "Europe/Berlin"],
     [hourly |-> [temperature_2m |-> <<12>>, precipitation_probability |-> <<30>>,
                  wind_speed_10m |-> <<8>>, cloud_cover |-> <<40>>,
                  visibility |-> <<9000>>],
      daily  |-> [time |-> [i \in 1..(ForecastDays + 2) |-> "d"],
                  precipitation_sum |-> [i \in 1..(ForecastDays + 2) |-> 0]]]}

Ok(data)   == [outcome |-> "ok", data |-> data]
Fail(kind) == [outcome |-> kind, data |-> <<>>]
Answers(bodies) == {Ok(b) : b \in bodies} \cup {Fail(k) : k \in Failures}

(***************************************************************************)
(* Agent replies for the structured-output endpoints: a payload in a form  *)
(***************************************************************************)
Join(a, sep, b) == a \o sep \o b

RECURSIVE Joined(_, _)
\* The token sequences of parts, with sep between them.
Joined(parts, sep) ==
    IF parts = <<>> THEN <<>>
    ELSE IF Len(parts) = 1 THEN parts[1]
    ELSE parts[1] \o sep \o Joined(Tail(parts), sep)

TourItem(i) ==
    <<P("{"), S("title"), P(":"), S(<<"T1", "T2", "T3">>[i]), P(","), Ws,
      S("url"), P(":"), S(<<"U1", "U2", "U3">>[i]), P("}")>>
BirdItem(i) ==
    <<P("{"), S("species"), P(":"), Ws, S(<<"T1", "T2", "T3">>[i]), P("}")>>

\* {"<key>": [item, ...]}
ListObject(key, items) ==
    <<P("{"), S(key), P(":"), Ws, P("[")>> \o Joined(items, <<P(","), Ws>>)
    \o <<P("]"), P("}")>>

Payload(kind, names, toks) == [kind |-> kind, names |-> names, toks |-> toks]

MaxItems == 2

\* Objects of the expected shape, with 0..MaxItems items.
ValidPayloads(key, Item(_)) ==
    {Payload("valid", [i \in 1..n |-> <<"T1", "T2", "T3">>[i]],
             ListObject(key, [i \in 1..n |-> Item(i)])) : n \in 0..MaxItems}

\* JSON that is no object with the expected list.
WrongShapePayloads(key) ==
    {Payload("wrongshape", <<>>, t) : t \in
        {<<P("{"), S(key), P(":"), Null, P("}")>>,
         <<P("{"), S(key), P(":"), N("7"), P("}")>>,
         <<P("{"), S(key), P(":"), S("none found"), P("}")>>,
         <<P("{"), S(key), P(":"), P("{"), P("}"), P("}")>>,
         <<P("{"), P("}")>>,
         <<P("{"), S("results"), P(":"), P("["), P("]"), P("}")>>,
         <<P("["), S("T1"), P("]")>>,
         <<N("7")>>,
         <<Null>>}}

\* Text that is no JSON, with and without braces.
MalformedPayloads(key) ==
    {Payload("malformed", <<>>, t) : t \in
        {<<P("{"), S(key), P(":"), P("[")>>,
         <<P("{"), S(key), P(":"), P("["), P("}")>>,
         <<P("{"), S(key), P("}")>>,
         <<P("{"), S(key), P(":"), P("["), P("]"), P("}"), P("}")>>}}

NoJsonPayloads ==
    {Payload("nojson", <<>>, t) : t \in {<<>>, <<Word("sorry"), Ws, Word("nothing")>>}}

Prose == <<Word("here"), Ws, Word("you"), Ws, Word("go")>>

Forms ==
    {"plain", "padded", "fenced", "fenced_json", "prose_before", "prose_after",
     "prose_both", "fenced_in_prose"}

Render(form, toks) ==
    CASE form = "plain"        -> toks
      [] form = "padded"       -> <<Ws>> \o toks \o <<Ws, Ws>>
      [] form = "fenced"       -> <<Fence, Ws>> \o toks \o <<Ws, Fence>>
      [] form = "fenced_json"  -> <<Fence, Word("json"), Ws>> \o toks \o <<Ws, Fence>>
      [] form = "prose_before" -> Prose \o <<Ws>> \o toks
      [] form = "prose_after"  -> toks \o <<Ws>> \o Prose
      [] form = "prose_both"   -> Prose \o <<Ws>> \o toks \o <<Ws>> \o Prose
      [] form = "fenced_in_prose" ->
            Prose \o <<Ws, Fence, Word("json"), Ws>> \o toks \o <<Ws, Fence, Ws>> \o Prose

AgentRaises ==
    [outcome |-> "raise", text |-> <<>>, form |-> "none", kind |-> "none",
     names |-> <<>>]

\* What agent.run can give: a reply text (with how it was made), or an exception.
Replies(payloads) ==
    {[outcome |-> "ok", text |-> Render(f, p.toks), form |-> f, kind |-> p.kind,
      names |-> p.names] : f \in Forms, p \in payloads}
    \cup {AgentRaises}

ToursReplies ==
    Replies(ValidPayloads("tours", TourItem) \cup WrongShapePayloads("tours")
            \cup MalformedPayloads("tours") \cup NoJsonPayloads)
BirdsReplies ==
    Replies(ValidPayloads("birds", BirdItem) \cup WrongShapePayloads("birds")
            \cup MalformedPayloads("birds") \cup NoJsonPayloads)


(***************************************************************************)
(* POST /api/chat/stream: the generator of the streaming response          *)
(***************************************************************************)
MaxChunks == 3

DoneEvent      == [kind |-> "done",  text |-> "[DONE]"]
ErrorEvent     == [kind |-> "error", text |-> "Error"]
DataEvent(txt) == [kind |-> "data",  text |-> txt]

\* What the agent's stream yields: chunks with text, with empty text, and
\* objects without a content attribute.
Chunks == {[content |-> "a"], [content |-> "b"], [content |-> ""], [event |-> "tool"]}

\* A run yields chunks and then ends, or raises after them (get_agent or run
\* raising at once is a run that raises after no chunk).
StreamRuns ==
    UNION {[chunks : [1..n -> Chunks], raises : BOOLEAN, at : {1}] : n \in 0..MaxChunks}

\* if hasattr(chunk, 'content') and chunk.content: yield f"data: {chunk.content}"
MutDeliver(events, chunk) ==
    IF "content" \in DOMAIN chunk /\ chunk.content # ""
    THEN <<DataEvent(chunk.content)>> \o events
    ELSE events
Deliver(events, chunk) ==
    IF "content" \in DOMAIN chunk /\ chunk.content # ""
    THEN Append(events, DataEvent(chunk.content))
    ELSE events

\* After the loop: yield "data: [DONE]"; in the except clause: yield the error.
LastEvent(raises) == IF raises THEN ErrorEvent ELSE DoneEvent

(***************************************************************************)
(* The agent cache: get_agent, and what it constructs                      *)
(***************************************************************************)
\* AgentType: the nine specialists, and the team.
Specialists ==
    {"identification", "behavior", "location", "journal", "coach", "community",
     "tours", "migration", "lifelist"}
TEAM == "team"
AgentTypes == Specialists \cup {TEAM}

\* Team(members=[...]) of create_birding_team and of create_router_team.
BirdingTeamMembers ==
    {"identification", "behavior", "location", "journal", "coach", "community",
     "migration", "lifelist"}
RouterTeamMembers ==
    {"identification", "behavior", "location", "journal", "coach", "community",
     "migration", "lifelist"}

\* An empty cache slot; instances are numbered from 1 in order of construction.
NoAgent == 0
NoTeam  == [id |-> NoAgent, name |-> "", members |-> {}, respond_directly |-> FALSE]

create_birding_team(id) ==
    [id |-> id, name |-> "BirdWatch AI Team", members |-> BirdingTeamMembers,
     respond_directly |-> FALSE]
create_router_team(id) ==
    [id |-> id, name |-> "BirdWatch Router", members |-> RouterTeamMembers,
     respond_directly |-> TRUE]

\* What get_agent gives its caller: the instance, or the constructor's exception;
\* with the cache as the call leaves it.
Got(slots, coordinator, counts, instance, fresh) ==
    [raised |-> FALSE, agents |-> slots, team |-> coordinator, built |-> counts,
     instance |-> instance, fresh |-> fresh]
NotGot(slots, coordinator, counts) ==
    [raised |-> TRUE, agents |-> slots, team |-> coordinator, built |-> counts,
     instance |-> NoAgent, fresh |-> FALSE]

\* get_agent(agent_type) on the cache (slots, coordinator); counts is the number
\* of instances constructed so far per role; constructs says whether the
\* constructor, if called, returns (or raises).
MutGetAgentNoCache(slots, coordinator, counts, agent_type, constructs) ==
    LET id == counts[agent_type] + 1
        counted == [counts EXCEPT ![agent_type] = id]
    IN  IF ~constructs THEN NotGot(slots, coordinator, counts)
        ELSE IF agent_type = TEAM
        THEN Got(slots, create_birding_team(id), counted, id, TRUE)
        ELSE Got([slots EXCEPT ![agent_type] = id], coordinator, counted, id, TRUE)
get_agent(slots, coordinator, counts, agent_type, constructs) ==
    LET id == counts[agent_type] + 1
        counted == [counts EXCEPT ![agent_type] = id]
    IN  IF agent_type = TEAM
        THEN IF coordinator.id # NoAgent
             THEN Got(slots, coordinator, counts, coordinator.id, FALSE)
             ELSE IF constructs
             THEN Got(slots, create_birding_team(id), counted, id, TRUE)
             ELSE NotGot(slots, coordinator, counts)
        ELSE IF slots[agent_type] # NoAgent
             THEN Got(slots, coordinator, counts, slots[agent_type], FALSE)
             ELSE IF constructs
             THEN Got([slots EXCEPT ![agent_type] = id], coordinator, counted, id, TRUE)
             ELSE NotGot(slots, coordinator, counts)

\* agent.run(input) on the instance get_agent gave.
AgentRun(got, agent_type, input) ==
    [url |-> "agent.run",
     params |-> [agent |-> agent_type, instance |-> got.instance,
                 fresh |-> got.fresh, input |-> input]]

(***************************************************************************)
(* POST /api/chat and POST /api/chat/stream: the input built for the agent *)
(***************************************************************************)
\* One line of the text handed to the agent.
Line(tag, a, b) == [tag |-> tag, a |-> a, b |-> b]
BlankLine == Line("blank", "", "")

\* request.context / request.history: None when the request omits them.
Has(r, field) == field \in DOMAIN r

\* f"{k}: {v}" for the items of the context, in the dict's order.
ContextLines(context) ==
    [i \in 1..Len(context) |-> Line("item", context[i].k, context[i].v)]

RoleLabel(m) == IF m.role = "user" THEN "User" ELSE "Assistant"

\* f"{role}: {m.content}" for the turns of the history, in order.
HistoryLines(history) ==
    [i \in 1..Len(history) |-> Line("turn", RoleLabel(history[i]), history[i].content)]

ContextBlock(context) ==
    <<Line("header", "Context (use this when relevant):", "")>> \o ContextLines(context)
HistoryBlock(history) ==
    <<Line("header", "Previous conversation:", "")>> \o HistoryLines(history)
CurrentBlock(message) == <<Line("current", "Current user message: ", message)>>

\* chat: parts = [...]; message = "\n\n".join(parts)
chat_message(r) ==
    LET withContext == IF Has(r, "context") /\ r.context # <<>>
                       THEN <<ContextBlock(r.context)>> ELSE <<>>
        withHistory == IF Has(r, "history") /\ Len(r.history) > 0
                       THEN Append(withContext, HistoryBlock(r.history))
                       ELSE withContext
        parts == Append(withHistory, CurrentBlock(r.message))
    IN  Joined(parts, <<BlankLine>>)

\* chat_stream, generate(): the same construction, written again.
MutStreamMessage(r) ==
    LET withHistory == IF Has(r, "history") /\ Len(r.history) > 0
                       THEN <<HistoryBlock(r.history)>> ELSE <<>>
        withContext == IF Has(r, "context") /\ r.context # <<>>
                       THEN Append(withHistory, ContextBlock(r.context))
                       ELSE withHistory
        parts == Append(withContext, CurrentBlock(r.message))
    IN  Joined(parts, <<BlankLine>>)
chat_stream_message(r) ==
    LET withContext == IF Has(r, "context") /\ r.context # <<>>
                       THEN <<ContextBlock(r.context)>> ELSE <<>>
        withHistory == IF Has(r, "history") /\ Len(r.history) > 0
                       THEN Append(withContext, HistoryBlock(r.history))
                       ELSE withContext
        parts == Append(withHistory, CurrentBlock(r.message))
    IN  Joined(parts, <<BlankLine>>)

\* Agent(name=...) of each constructor.
MutAgentName(agent_type) == agent_type
AgentName(agent_type) ==
    CASE agent_type = "identification" -> "Identification Agent"
      [] agent_type = "behavior"       -> "Behavior Interpreter Agent"
      [] agent_type = "location"       -> "Location Scout Agent"
      [] agent_type = "journal"        -> "Journal Agent"
      [] agent_type = "coach"          -> "Learning Coach Agent"
      [] agent_type = "community"      -> "Community Connector Agent"
      [] agent_type = "tours"          -> "Birding Tours Agent"
      [] agent_type = "migration"      -> "Migration Trends Agent"
      [] agent_type = "lifelist"       -> "Life List Coach"
      [] agent_type = TEAM             -> "BirdWatch AI Team"

\* session_id = request.session_id or str(uuid.uuid4())
MutSessionId(r, fresh) == "s0"
SessionId(r, fresh) ==
    IF Has(r, "session_id") /\ r.session_id # "" THEN r.session_id ELSE fresh

RECURSIVE Concat(_)
\* response_text += msg.content for the messages that have content.
Concat(messages) ==
    IF messages = <<>> THEN <<>>
    ELSE (IF Has(Head(messages), "content") /\ Truthy(Head(messages).content)
          THEN <<Head(messages).content.s>> ELSE <<>>) \o Concat(Tail(messages))

\* The text taken from what agent.run returned: its content, else the content
\* of its messages, else str(response).
ResponseText(response) ==
    IF Has(response, "content") THEN response.content
    ELSE IF Has(response, "messages") /\ response.messages # <<>>
    THEN [t |-> "text", parts |-> Concat(response.messages)]
    ELSE [t |-> "text", parts |-> <<"str(response)">>]

\* chat from agent.run on, inside its try: the ChatResponse, or the 500 of the
\* except clause (agent.run raising; a response text that is no string).
chat(r, run) ==
    IF run.outcome # "ok" THEN HTTPException(500, "Agent error")
    ELSE IF ResponseText(run.response).t = "null" THEN HTTPException(500, "Agent error")
    ELSE Response([response   |-> ResponseText(run.response),
                   agent_used |-> AgentName(r.agent_type),
                   session_id |-> SessionId(r, run.uuid),
                   tool_calls |-> None])

(***************************************************************************)
(* Requests and agent answers for the chat and specialist endpoints        *)
(***************************************************************************)
BaseRequest(agent_type) == [message |-> "hi", agent_type |-> agent_type]

Contexts ==
    {<<>>,
     <<[k |-> "location", v |-> "Oslo"]>>,
     <<[k |-> "location", v |-> "Oslo"], [k |-> "latitude", v |-> "59.9"]>>}

Histories ==
    {<<>>,
     <<[role |-> "user", content |-> "where are the owls"]>>,
     <<[role |-> "user", content |-> "where are the owls"],
       [role |-> "assistant", content |-> "what is your location"],
       [role |-> "system", content |-> "note"]>>}

\* Chat requests: every agent type; for the team, every combination of an
\* absent, empty or filled context with an absent, empty or filled history,
\* and a session id that is absent, empty or given.
ChatRequests ==
    LET plain   == BaseRequest(TEAM)
        ctxs    == {plain} \cup {[context |-> c] @@ plain : c \in Contexts}
        hists   == ctxs \cup {[history |-> h] @@ x : x \in ctxs, h \in Histories}
        session == {[session_id |-> sid] @@ plain : sid \in {"", "s1"}}
    IN  {BaseRequest(a) : a \in AgentTypes} \cup hists \cup session

\* What agent.run returns: an object with content, with messages, with neither.
AgentResponses ==
    {[content |-> StrV("reply")],
     [content |-> NullV],
     [messages |-> <<[content |-> StrV("a")], [content |-> StrV("")],
                     [role |-> "tool"], [content |-> StrV("b")]>>],
     [messages |-> <<>>],
     [status |-> "completed"]}

RunRaises == [outcome |-> "raise", response |-> [content |-> NullV], uuid |-> "u1"]
RunReplies == [outcome |-> "ok", response |-> [content |-> StrV("reply")], uuid |-> "u1"]
ChatRuns ==
    {[outcome |-> "ok", response |-> a, uuid |-> "u1"] : a \in AgentResponses}
    \cup {RunRaises}

\* Every answer for the plain team request; for the other requests a reply
\* and an exception.
ChatInputs ==
    {<<r, run>> \in ChatRequests \X ChatRuns :
        r = BaseRequest(TEAM) \/ run \in {RunReplies, RunRaises}}

\* Every stream for the plain team request; for the other requests a stream
\* that ends or raises at once.
StreamInputs ==
    {<<r, run>> \in ChatRequests \X StreamRuns :
        r = BaseRequest(TEAM) \/ run.chunks = <<>>}

(***************************************************************************)
(* The endpoints that hand a prompt to one specialist                      *)
(***************************************************************************)
Endpoint(name, agent_type, label, detail) ==
    [name |-> name, agent_type |-> agent_type, label |-> label, detail |-> detail]

\* Each: agent = get_agent(...); try: agent.run(prompt) ... except Exception:
\* raise HTTPException(500, detail + str(e)).
SpecialistEndpoints ==
    {Endpoint("identify_bird", "identification", "Identification Agent", ""),
     Endpoint("recommend_locations", "location", "Location Scout Agent", ""),
     Endpoint("create_birding_route", "location", "Location Scout Agent", ""),
     Endpoint("log_sighting", "journal", "Journal Agent", ""),
     Endpoint("summarize_trip", "journal", "Journal Agent", ""),
     Endpoint("get_quiz", "coach", "Learning Coach Agent", ""),
     Endpoint("check_quiz_answer", "coach", "Learning Coach Agent", ""),
     Endpoint("learn_species", "coach", "Learning Coach Agent", ""),
     Endpoint("compare_species", "coach", "Learning Coach Agent", ""),
     Endpoint("should_report_sighting", "community", "Community Connector Agent", ""),
     Endpoint("find_birding_groups", "community", "Community Connector Agent", ""),
     Endpoint("explain_behavior", "behavior", "Behavior Interpreter Agent", ""),
     Endpoint("get_seasonal_behaviors", "behavior", "Behavior Interpreter Agent", ""),
     Endpoint("get_migration_forecast", "migration", "Migration Trends Agent", "Agent error"),
     Endpoint("get_best_time_to_see", "migration", "Migration Trends Agent", "Agent error"),
     Endpoint("get_species_migration_info", "migration", "Migration Trends Agent", "Agent error"),
     Endpoint("get_lifelist_targets", "lifelist", "Life List Coach", "Agent error"),
     Endpoint("analyze_lifelist", "lifelist", "Life List Coach", "Agent error"),
     Endpoint("get_seasonal_targets", "lifelist", "Life List Coach", "Agent error")}

\* response.content if hasattr(response, 'content') else str(response)
ContentOrStr(response) ==
    IF Has(response, "content") THEN response.content
    ELSE [t |-> "text", parts |-> <<"str(response)">>]

\* A specialist endpoint from its try on.
specialist_endpoint(e, run) ==
    IF run.outcome # "ok" THEN HTTPException(500, e.detail)
    ELSE Response([text |-> ContentOrStr(run.response), agent |-> e.label])

(***************************************************************************)
(* POST /api/identify/upload: the vision call, made directly               *)
(***************************************************************************)
NoOpenAIKey == "OPENAI_API_KEY not configured. Please add it to your .env file."

VisionCall == [url |-> "openai/chat/completions", params |-> [model |-> "gpt-4o"]]

\* What the completion endpoint answers with.
VisionBodies ==
    {[choices |-> <<[message |-> [content |-> "Northern Cardinal"]]>>],
     [choices |-> <<>>],
     [error |-> "bad request"]}

\* result["choices"][0]["message"]["content"]
VisionBody(data) ==
    IF ~Has(data, "choices") THEN Raised("KeyError")
    ELSE IF data.choices = <<>> THEN Raised("IndexError")
    ELSE Returned([identification |-> data.choices[1].message.content,
                   agent |-> "Identification Agent (Vision)"])

\* identify_bird_upload: the key check, then the call in its try with
\* except httpx.HTTPError and except Exception, both answering 500.
identify_bird_upload(keys, up) ==
    IF MissingKey(keys, "openai_api_key") THEN HTTPException(500, NoOpenAIKey)
    ELSE LET block == Attempt(up, VisionBody(up.data))
         IN  IF ~block.raised THEN Response(block.val)
             ELSE IF Catches("HTTPError", block.val)
             THEN HTTPException(500, "OpenAI API error")
             ELSE HTTPException(500, "")

(***************************************************************************)
(* The state machine                                                       *)
(***************************************************************************)
\* The callers that may be inside get_agent at the same time.
MaxCallers == 2
Callers == 1..MaxCallers

\* No instance in a caller's hands.
NoInstance == [role |-> "", id |-> NoAgent]

\* A caller that is not inside get_agent.
NoCall == [at |-> "out", role |-> "", local |-> NoInstance, result |-> NoInstance]

Init ==
    /\ pc = "idle"
    /\ op = None
    /\ req = <<>>
    /\ upstream = <<>>
    /\ sent = <<>>
    /\ resp = <<>>
    /\ settings \in Keys
    /\ agents = [a \in Specialists |-> NoAgent]
    /\ team = NoTeam
    /\ built = [a \in AgentTypes |-> 0]
    /\ calls = [t \in Callers |-> NoCall]

\* A handler that does not call get_agent runs to its end.
Finish(o, r, u, s, out) ==
    /\ pc' = "done"
    /\ op' = o
    /\ req' = r
    /\ upstream' = u
    /\ sent' = s
    /\ resp' = out
    /\ UNCHANGED <<settings, agents, team, built, calls>>

\* A handler that called get_agent, with result got, runs to its end.
FinishWith(got, o, r, u, s, out) ==
    /\ pc' = "done"
    /\ op' = o
    /\ req' = r
    /\ upstream' = u
    /\ sent' = s
    /\ resp' = out
    /\ agents' = got.agents
    /\ team' = got.team
    /\ built' = got.built
    /\ UNCHANGED <<settings, calls>>

\* The roles whose cache slot is filled.
Warm ==
    {a \in Specialists : agents[a] # NoAgent}
    \cup (IF team.id # NoAgent THEN {TEAM} ELSE {})

\* The requests observed warm up at most MaxWarm roles.
MaxWarm == 1
CanAsk(agent_type) == agent_type \in Warm \/ Cardinality(Warm) < MaxWarm

\* An exception of an agent constructor, raised by get_agent.
ConstructorError == "ConstructorError"

WeatherCall(lat, lng, days) ==
    [url |-> "open-meteo/forecast",
     params |-> [latitude |-> lat, longitude |-> lng, forecast_days |-> days]]

\* The tools, as an agent calls them.
ToolBirdingConditions ==
    /\ pc = "idle"
    /\ \E up \in Answers(ConditionsBodies) :
        Finish("get_birding_conditions", [lat |-> 0, lng |-> 0], <<up>>,
               <<WeatherCall(0, 0, 1)>>, get_birding_conditions(up))

ToolWeatherForecast ==
    /\ pc = "idle"
    /\ \E up \in Answers(ForecastBodies) :
        Finish("get_weather_forecast", [lat |-> 0, lng |-> 0], <<up>>,
               <<WeatherCall(0, 0, ForecastDays)>>, get_weather_forecast(up))

ToolRecentObservations ==
    /\ pc = "idle"
    /\ \E up \in Answers(Lists), b \in BackRequests, m \in MaxResultsRequests :
        LET r == [region_code |-> "US-CA", back_days |-> b, max_results |-> m]
        IN  Finish("get_recent_observations", r, <<up>>, <<RecentCall(r)>>,
                   get_recent_observations(r, up))

ToolNotableObservations ==
    /\ pc = "idle"
    /\ \E up \in Answers(Lists), b \in BackRequests, m \in MaxResultsRequests :
        LET r == [region_code |-> "US-CA", back_days |-> b, max_results |-> m]
        IN  Finish("get_notable_observations", r, <<up>>, <<NotableCall(r)>>,
                   get_notable_observations(r, up))

ToolNearbyHotspots ==
    /\ pc = "idle"
    /\ \E up \in Answers(Lists), q \in QueryPoints, d \in DistRequests,
          m \in MaxResultsRequests :
        LET r == [lat |-> q.lat, lng |-> q.lng, distance_km |-> d, max_results |-> m]
        IN  Finish("get_nearby_hotspots", r, <<up>>, <<HotspotsCall(r)>>,
                   get_nearby_hotspots(r, up))

ToolSpeciesObservations ==
    /\ pc = "idle"
    /\ \E up \in Answers(Lists), b \in BackRequests, m \in MaxResultsRequests :
        LET r == [species_code |-> "norcar", region_code |-> "US-CA",
                  back_days |-> b, max_results |-> m]
        IN  Finish("get_species_observations", r, <<up>>, <<SpeciesCall(r)>>,
                   get_species_observations(r, up))

ToolRegionInfo ==
    /\ pc = "idle"
    /\ \E up \in Answers(Infos) :
        LET r == [region_code |-> "US-CA"]
        IN  Finish("get_region_info", r, <<up>>, <<RegionInfoCall(r)>>,
                   get_region_info(r, up))

ToolHotspotInfo ==
    /\ pc = "idle"
    /\ \E up \in Answers(Infos) :
        LET r == [hotspot_id |-> "L1"]
        IN  Finish("get_hotspot_info", r, <<up>>, <<HotspotInfoCall(r)>>,
                   get_hotspot_info(r, up))

ToolTaxonomy ==
    /\ pc = "idle"
    /\ \E up \in Answers(Taxa), q \in SearchQueries, c \in {"", "norcar"} :
        LET r == [species_codes |-> c, search_query |-> q]
        IN  Finish("get_taxonomy", r, <<up>>, <<TaxonomyCall(r)>>,
                   get_taxonomy(r, up))

ToolRareBirdsNearby ==
    /\ pc = "idle"
    /\ \E up \in Answers(Sightings), q \in QueryPoints,
          d \in {25, 80}, b \in {7, 45} :
        LET r == [lat |-> q.lat, lng |-> q.lng, distance_km |-> d, back_days |-> b]
        IN  Finish("get_rare_birds_nearby", r, <<up>>, <<RareNearbyCall(r)>>,
                   get_rare_birds_nearby(r, up))

\* GET /api/conditions: both tools, one after the other.
ApiConditions ==
    /\ pc = "idle"
    /\ \E c \in Answers(FewConditionsBodies), f \in Answers(ForecastBodies) :
        LET conditions == get_birding_conditions(c)
            forecast   == get_weather_forecast(f)
        IN  Finish("api_conditions", [lat |-> 0, lng |-> 0], <<c, f>>,
                   <<WeatherCall(0, 0, 1)>>
                   \o (IF conditions.raised THEN <<>>
                       ELSE <<WeatherCall(0, 0, ForecastDays)>>),
                   IF conditions.raised THEN Escaped(conditions.val)
                   ELSE IF forecast.raised THEN Escaped(forecast.val)
                   ELSE Response([conditions |-> conditions, forecast |-> forecast]))

\* GET /api/locations/hotspots
ApiHotspots ==
    /\ pc = "idle"
    /\ \E up \in Answers(Lists), q \in QueryPoints, d \in DistRequests :
        LET r == [lat |-> q.lat, lng |-> q.lng, distance_km |-> d]
        IN  IF MissingKey(settings, "ebird_api_key")
            THEN Finish("api_hotspots", r, <<>>, <<>>, HTTPException(500, NoEBirdKey))
            ELSE Finish("api_hotspots", r, <<up>>, <<DirectHotspotsCall(r)>>,
                        api_hotspots(r, up))

\* GET /api/locations/rare-birds
ApiRareBirds ==
    /\ pc = "idle"
    /\ \E up \in Answers(Lists), q \in QueryPoints, d \in DistRequests,
          b \in BackRequests :
        LET r == [lat |-> q.lat, lng |-> q.lng, distance_km |-> d, days |-> b]
        IN  IF MissingKey(settings, "ebird_api_key")
            THEN Finish("api_rare_birds", r, <<>>, <<>>, HTTPException(500, NoEBirdKey))
            ELSE Finish("api_rare_birds", r, <<up>>, <<DirectRareCall(r)>>,
                        api_rare_birds(r, up))

\* GET /api/community/alerts
ApiAlerts ==
    /\ pc = "idle"
    /\ CanAsk("community")
    /\ \E up \in Answers(Lists), a \in AgentRuns, q \in QueryPoints,
          d \in DistRequests, constructs \in BOOLEAN :
        LET r    == [lat |-> q.lat, lng |-> q.lng, distance_km |-> d]
            asks == \E i \in 1..Len(AlertsSent(r, settings, up)) :
                        AlertsSent(r, settings, up)[i].url = "agent.run"
            got  == get_agent(agents, team, built, "community", constructs)
        IN  IF ~asks
            THEN Finish("api_alerts", r, <<up, a>>, AlertsSent(r, settings, up),
                        api_alerts(r, settings, up, a))
            ELSE IF got.raised
            THEN FinishWith(got, "api_alerts", r, <<up, a>>,
                            SelectSeq(AlertsSent(r, settings, up),
                                      LAMBDA c : c.url # "agent.run"),
                            HTTPException(500, "Agent error"))
            ELSE FinishWith(got, "api_alerts", r, <<up, a>>,
                            AlertsSent(r, settings, up),
                            api_alerts(r, settings, up, a))

\* GET /api/community/tours
ApiTours ==
    /\ pc = "idle"
    /\ CanAsk("tours")
    /\ \E a \in ToursReplies, constructs \in BOOLEAN :
        LET r   == [location |-> "Oslo"]
            got == get_agent(agents, team, built, "tours", constructs)
        IN  IF got.raised
            THEN FinishWith(got, "api_tours", r, <<>>, <<>>, Escaped(ConstructorError))
            ELSE FinishWith(got, "api_tours", r, <<a>>,
                            <<AgentRun(got, "tours", r.location)>>,
                            find_birding_tours(r.location, a))

\* POST /api/lifelist/area-based-targets
ApiAreaTargets ==
    /\ pc = "idle"
    /\ CanAsk("lifelist")
    /\ \E a \in BirdsReplies, sp \in {<<>>, <<"Mallard", "Robin">>}, n \in {1, 3},
          constructs \in BOOLEAN :
        LET r   == [species |-> sp, num_targets |-> n]
            got == get_agent(agents, team, built, "lifelist", constructs)
        IN  IF got.raised
            THEN FinishWith(got, "api_area_targets", r, <<>>, <<>>,
                            Escaped(ConstructorError))
            ELSE IF sp = <<>>
            THEN FinishWith(got, "api_area_targets", r, <<>>, <<>>,
                            get_area_based_targets(r, a))
            ELSE FinishWith(got, "api_area_targets", r, <<a>>,
                            <<AgentRun(got, "lifelist", r.species)>>,
                            get_area_based_targets(r, a))

\* POST /api/chat
Chat ==
    /\ pc = "idle"
    /\ \E in \in ChatInputs, constructs \in BOOLEAN :
        LET r   == in[1]
            run == in[2]
            got == get_agent(agents, team, built, r.agent_type, constructs)
        IN  /\ CanAsk(r.agent_type)
            /\ IF got.raised
               THEN FinishWith(got, "chat", r, <<>>, <<>>,
                               HTTPException(500, "Agent error"))
               ELSE FinishWith(got, "chat", r, <<run>>,
                               <<AgentRun(got, r.agent_type, chat_message(r))>>,
                               chat(r, run))

\* POST /api/chat/stream: the response starts and the generator reaches
\* agent.run, or get_agent raises and only the error event is left to send.
StreamStart ==
    /\ pc = "idle"
    /\ \E in \in StreamInputs, constructs \in BOOLEAN :
        LET r   == in[1]
            run == in[2]
            got == get_agent(agents, team, built, r.agent_type, constructs)
        IN  /\ CanAsk(r.agent_type)
            /\ pc' = "streaming"
            /\ op' = "chat_stream"
            /\ req' = r
            /\ upstream' = IF got.raised
                           THEN [chunks |-> <<>>, raises |-> TRUE, at |-> 1]
                           ELSE run
            /\ sent' = IF got.raised
                       THEN <<>>
                       ELSE <<AgentRun(got, r.agent_type, chat_stream_message(r))>>
            /\ resp' = <<>>
            /\ agents' = got.agents
            /\ team' = got.team
            /\ built' = got.built
            /\ UNCHANGED <<settings, calls>>

\* The agent yields its next chunk.
StreamChunk ==
    /\ pc = "streaming"
    /\ upstream.at <= Len(upstream.chunks)
    /\ resp' = Deliver(resp, upstream.chunks[upstream.at])
    /\ upstream' = [upstream EXCEPT !.at = @ + 1]
    /\ UNCHANGED <<pc, op, req, sent, settings, agents, team, built, calls>>

\* The agent's stream ends or raises: the generator yields its last event.
StreamEnd ==
    /\ pc = "streaming"
    /\ upstream.at > Len(upstream.chunks)
    /\ resp' = Append(resp, LastEvent(upstream.raises))
    /\ pc' = "done"
    /\ UNCHANGED <<op, req, upstream, sent, settings, agents, team, built, calls>>

\* The endpoints that hand one prompt to one specialist.
ApiSpecialist ==
    /\ pc = "idle"
    /\ \E e \in SpecialistEndpoints, run \in {RunReplies, RunRaises},
          constructs \in BOOLEAN :
        LET got == get_agent(agents, team, built, e.agent_type, constructs)
        IN  /\ CanAsk(e.agent_type)
            /\ IF got.raised
               THEN FinishWith(got, e.name, <<>>, <<>>, <<>>,
                               Escaped(ConstructorError))
               ELSE FinishWith(got, e.name, <<>>, <<run>>,
                               <<AgentRun(got, e.agent_type, e.name)>>,
                               specialist_endpoint(e, run))

\* POST /api/identify/upload
ApiIdentifyUpload ==
    /\ pc = "idle"
    /\ \E up \in Answers(VisionBodies) :
        IF MissingKey(settings, "openai_api_key")
        THEN Finish("api_identify_upload", <<>>, <<>>, <<>>,
                    identify_bird_upload(settings, up))
        ELSE Finish("api_identify_upload", <<>>, <<up>>, <<VisionCall>>,
                    identify_bird_upload(settings, up))

Return ==
    /\ pc = "done"
    /\ pc' = "idle"
    /\ op' = None
    /\ req' = <<>>
    /\ upstream' = <<>>
    /\ sent' = <<>>
    /\ resp' = <<>>
    /\ UNCHANGED <<settings, agents, team, built, calls>>

\* The data tools and the endpoints that call the upstream APIs themselves.
Next ==
    \/ ToolBirdingConditions
    \/ ToolWeatherForecast
    \/ ToolRecentObservations
    \/ ToolNotableObservations
    \/ ToolNearbyHotspots
    \/ ToolSpeciesObservations
    \/ ToolRegionInfo
    \/ ToolHotspotInfo
    \/ ToolTaxonomy
    \/ ToolRareBirdsNearby
    \/ ApiConditions
    \/ ApiHotspots
    \/ ApiRareBirds
    \/ ApiAlerts
    \/ ApiIdentifyUpload
    \/ Return

Spec == Init /\ [][Next]_vars

\* The endpoints that hand their input to an agent.
HandlerNext ==
    \/ Chat
    \/ StreamStart
    \/ StreamChunk
    \/ StreamEnd
    \/ ApiTours
    \/ ApiAreaTargets
    \/ ApiSpecialist
    \/ Return

HandlerSpec == Init /\ [][HandlerNext]_vars

(***************************************************************************)
(* get_agent, statement by statement, for callers that run concurrently    *)
(***************************************************************************)
\* The roles that are cached or that a call in progress asks for.
RolesInUse == Warm \cup {calls[t].role : t \in {u \in Callers : calls[u].at # "out"}}

RaceFrame == UNCHANGED <<pc, op, req, upstream, sent, resp, settings>>

\* def get_agent(agent_type): a caller enters.
RaceCall(t) ==
    /\ calls[t].at = "out"
    /\ \E agent_type \in AgentTypes :
        /\ agent_type \in RolesInUse \/ Cardinality(RolesInUse) < MaxWarm
        /\ calls' = [calls EXCEPT ![t] = [NoCall EXCEPT !.at = "test", !.role = agent_type]]
    /\ UNCHANGED <<agents, team, built>>
    /\ RaceFrame

\* if _team is None: / if agent_type.value not in _agents:
RaceTest(t) ==
    /\ calls[t].at = "test"
    /\ calls' = [calls EXCEPT ![t].at =
                    IF (IF calls[t].role = TEAM THEN team.id = NoAgent
                        ELSE agents[calls[t].role] = NoAgent)
                    THEN "construct" ELSE "return"]
    /\ UNCHANGED <<agents, team, built>>
    /\ RaceFrame

\* create_birding_team() / agent_creators[agent_type](): the constructor of
\* the requested role returns a new instance, or raises.
RaceConstruct(t) ==
    /\ calls[t].at = "construct"
    /\ built[calls[t].role] <= MaxCallers
    /\ \E constructs \in BOOLEAN :
        IF constructs
        THEN /\ built' = [built EXCEPT ![calls[t].role] = @ + 1]
             /\ calls' = [calls EXCEPT ![t].at = "store",
                                       ![t].local = [role |-> calls[t].role,
                                                     id |-> built[calls[t].role] + 1]]
        ELSE /\ calls' = [calls EXCEPT ![t].at = "raised"]
             /\ UNCHANGED built
    /\ UNCHANGED <<agents, team>>
    /\ RaceFrame

\* _team = ... / _agents[agent_type.value] = ...
MutRaceStore(slots, agent_type, instance) ==
    IF slots[agent_type] # NoAgent THEN slots
    ELSE [slots EXCEPT ![agent_type] = instance.id]
RaceStoreSlot(slots, agent_type, instance) ==
    [slots EXCEPT ![agent_type] = instance.id]

RaceStore(t) ==
    /\ calls[t].at = "store"
    /\ IF calls[t].role = TEAM
       THEN /\ team' = create_birding_team(calls[t].local.id)
            /\ UNCHANGED agents
       ELSE /\ agents' = RaceStoreSlot(agents, calls[t].role, calls[t].local)
            /\ UNCHANGED team
    /\ calls' = [calls EXCEPT ![t].at = "return"]
    /\ UNCHANGED built
    /\ RaceFrame

\* return _team / return _agents[agent_type.value]
RaceReturn(t) ==
    /\ calls[t].at = "return"
    /\ calls' = [calls EXCEPT ![t].at = "returned",
                              ![t].result =
                                  [role |-> calls[t].role,
                                   id   |-> IF calls[t].role = TEAM THEN team.id
                                            ELSE agents[calls[t].role]]]
    /\ UNCHANGED <<agents, team, built>>
    /\ RaceFrame

\* The caller goes on with what it got.
RaceLeave(t) ==
    /\ calls[t].at \in {"returned", "raised"}
    /\ calls' = [calls EXCEPT ![t] = NoCall]
    /\ UNCHANGED <<agents, team, built>>
    /\ RaceFrame

RaceNext ==
    \E t \in Callers :
        \/ RaceCall(t)
        \/ RaceTest(t)
        \/ RaceConstruct(t)
        \/ RaceStore(t)
        \/ RaceReturn(t)
        \/ RaceLeave(t)

RaceSpec == Init /\ [][RaceNext]_vars

(***************************************************************************)
(* Properties of get_birding_conditions                                    *)
(***************************************************************************)
\* A call of the tool that got a forecast and returned a result for it.
CondDone ==
    /\ pc = "done"
    /\ op = "get_birding_conditions"
    /\ upstream[1].outcome = "ok"
    /\ ~resp.raised /\ ~resp.error

\* The morning averages of that call, in twelfths.
CondAvg == Averages(Get(upstream[1].data, "hourly", <<>>))

AvgIs(wind, precip, clouds, temp) ==
    /\ CondAvg.wind = 12 * wind    /\ CondAvg.precip = 12 * precip
    /\ CondAvg.clouds = 12 * clouds /\ CondAvg.temp = 12 * temp

TierW(a) == IF a > 12 * 30 THEN 30 ELSE IF a > 12 * 20 THEN 15
            ELSE IF a > 12 * 10 THEN 5 ELSE 0
TierP(a) == IF a > 12 * 70 THEN 40 ELSE IF a > 12 * 40 THEN 20
            ELSE IF a > 12 * 20 THEN 10 ELSE 0
TierC(a) == IF a > 12 * 90 THEN 10 ELSE IF a < 12 * 20 THEN 5 ELSE 0
TierT(a) == IF a < 0 \/ a > 12 * 35 THEN 15
            ELSE IF a < 12 * 5 \/ a > 12 * 30 THEN 5 ELSE 0

\* C1: the score is 100 - W - P - C - T, one tier per metric (wind >30: 30,
\* >20: 15, >10: 5; precip >70: 40, >40: 20, >20: 10; clouds >90: 10, <20: 5;
\* temp <0 or >35: 15, <5 or >30: 5); averages (35, 80, 95, 40) give score 5
\* and rating "Poor".
C1_ScoreIsSumOfTiers ==
    CondDone =>
        /\ resp.val.score = 100 - TierW(CondAvg.wind) - TierP(CondAvg.precip)
                                 - TierC(CondAvg.clouds) - TierT(CondAvg.temp)
        /\ AvgIs(35, 80, 95, 40) => resp.val.score = 5 /\ resp.val.rating = "Poor"

C1_Witness ==
    CondDone /\ AvgIs(35, 80, 95, 40) /\ resp.val.score = 5

\* C2: whatever the upstream hourly forecast holds (any values, series absent
\* or short), the returned score is between 0 and 100.
C2_ScoreInRange ==
    CondDone => resp.val.score \in 0..100

C2_Witness ==
    /\ CondDone
    /\ "hourly" \in DOMAIN upstream[1].data
    /\ Get(upstream[1].data.hourly, "temperature_2m", <<>>) = <<>>
    /\ Len(Get(upstream[1].data.hourly, "wind_speed_10m", <<>>)) < MorningStart
    /\ AvgIs(10, 80, 95, 15)
    /\ resp.val.score = 50

\* C3: the returned rating is the one the returned score determines: >= 80
\* "Excellent", 60..79 "Good", 40..59 "Fair", below 40 "Poor".
C3_RatingMatchesScore ==
    CondDone =>
        LET score == resp.val.score
            rating == resp.val.rating
        IN  /\ score >= 80 <=> rating = "Excellent"
            /\ (60 <= score /\ score < 80) <=> rating = "Good"
            /\ (40 <= score /\ score < 60) <=> rating = "Fair"
            /\ score < 40 <=> rating = "Poor"

C3_Witness ==
    CondDone /\ resp.val.score = 80 /\ resp.val.rating = "Excellent"

\* The messages the claim lists, in its order, each with its condition.
ExpectedMessages(a) ==
    LET listed == <<
            <<a.wind > 12 * 20,   RecWind>>,
            <<a.precip > 12 * 40, RecRain>>,
            <<a.clouds < 12 * 20, RecClear>>,
            <<a.temp < 12 * 10,   RecCool>>,
            <<a.temp > 12 * 25,   RecWarm>> >>
        held == SelectSeq(listed, LAMBDA e : e[1])
    IN  [i \in 1..Len(held) |-> held[i][2]]

\* C4: the recommendations are one message for each of wind>20, precip>40,
\* clouds<20, temp<10, temp>25 that holds, in that order, and nothing else;
\* when none holds, only the default message; never an empty list; averages
\* (5, 0, 50, 18) give score 100, "Excellent" and only the default message.
C4_Recommendations ==
    CondDone =>
        LET recs == resp.val.recommendations
            want == ExpectedMessages(CondAvg)
        IN  /\ recs # <<>>
            /\ want # <<>> => recs = want
            /\ want = <<>> => recs = <<RecDefault>>
            /\ AvgIs(5, 0, 50, 18) =>
                   /\ resp.val.score = 100 /\ resp.val.rating = "Excellent"
                   /\ recs = <<RecDefault>>

C4_Witness ==
    /\ CondDone
    /\ resp.val.recommendations = <<RecWind, RecRain, RecClear, RecCool>>

C4_WitnessDefault ==
    CondDone /\ AvgIs(5, 0, 50, 18) /\ resp.val.recommendations = <<RecDefault>>

(***************************************************************************)
(* Properties of the eBird client and the direct eBird endpoints           *)
(***************************************************************************)
EBirdTools ==
    {"get_recent_observations", "get_notable_observations", "get_nearby_hotspots",
     "get_species_observations", "get_region_info", "get_hotspot_info",
     "get_taxonomy", "get_rare_birds_nearby"}
WeatherTools == {"get_birding_conditions", "get_weather_forecast"}
DirectEndpoints == {"api_hotspots", "api_rare_birds", "api_alerts"}

\* The look-back a request asks for (the rare-birds endpoint calls it days).
RequestedBack == IF "days" \in DOMAIN req THEN req.days ELSE req.back_days

\* The request was answered with a result, not with an error.
Served ==
    IF op \in EBirdTools THEN ~resp.raised /\ ~resp.error
    ELSE resp.status = 200 /\ ~resp.escaped

\* C5: whatever radius and look-back are requested, the call sent to eBird
\* has dist <= 50 and back <= 30, equal to the requested values when those
\* are within the limits and to the limits otherwise, and a request above the
\* limits that eBird answers is served, not refused.
C5_UpstreamParamsClamped ==
    (pc = "done" /\ op \in EBirdTools \cup DirectEndpoints) =>
        \A i \in 1..Len(sent) :
            LET params == sent[i].params IN
            /\ "dist" \in DOMAIN params =>
                  /\ params.dist <= 50
                  /\ req.distance_km <= 50 => params.dist = req.distance_km
                  /\ req.distance_km > 50 => params.dist = 50
                  /\ (req.distance_km > 50 /\ upstream[1].outcome = "ok"
                         /\ upstream[1].data # <<>>) => Served
            /\ ("back" \in DOMAIN params /\ op # "api_alerts") =>
                  /\ params.back <= 30
                  /\ RequestedBack <= 30 => params.back = RequestedBack
                  /\ RequestedBack > 30 => params.back = 30
                  /\ (RequestedBack > 30 /\ upstream[1].outcome = "ok") => Served
            /\ ("back" \in DOMAIN params /\ op = "api_alerts") => params.back <= 30

C5_Witness ==
    /\ pc = "done" /\ op = "get_nearby_hotspots"
    /\ req.distance_km = 80
    /\ sent[1].params.dist = 50
    /\ ~resp.error /\ Len(resp.val) > 0

C5_WitnessDirect ==
    /\ pc = "done" /\ op = "api_rare_birds" /\ Len(sent) = 1
    /\ req.distance_km = 51 /\ req.days = 45
    /\ sent[1].params.dist = 50 /\ sent[1].params.back = 30
    /\ resp.status = 200

\* A call of get_rare_birds_nearby that returned its list.
RareDone ==
    /\ pc = "done" /\ op = "get_rare_birds_nearby"
    /\ upstream[1].outcome = "ok" /\ ~resp.error

\* Where the i-th upstream sighting is in the returned list (names are unique).
PlaceOf(i) ==
    CHOOSE j \in 1..Len(resp.val) : resp.val[j].species = upstream[1].data[i].comName

\* C6: the list get_rare_birds_nearby returns is sorted by distance_km in
\* non-decreasing order, is a permutation of the upstream sightings, and
\* keeps sightings of equal distance in their upstream order.
C6_SortedStablePermutation ==
    RareDone =>
        LET out == resp.val
            obs == upstream[1].data
        IN  /\ \A j, k \in 1..Len(out) :
                    j < k => out[j].distance_km <= out[k].distance_km
            /\ Len(out) = Len(obs)
            /\ \A i \in 1..Len(obs) :
                    Cardinality({j \in 1..Len(out) : out[j].species = obs[i].comName}) = 1
            /\ \A i, k \in 1..Len(obs) :
                    (i < k /\ out[PlaceOf(i)].distance_km = out[PlaceOf(k)].distance_km)
                        => PlaceOf(i) < PlaceOf(k)

\* Upstream order o1 (far), o2, o3 (both 11.1 km away): returned o2, o3, o1.
C6_Witness ==
    /\ RareDone
    /\ Len(resp.val) = 3
    /\ resp.val[1].species = "o2" /\ resp.val[2].species = "o3"
    /\ resp.val[3].species = "o1"
    /\ resp.val[1].distance_km = 111 /\ resp.val[2].distance_km = 111
    /\ resp.val[3].distance_km > 111

\* C7: each of the eight eBird tools and the two weather tools returns a
\* string to its caller on every upstream outcome (an error text when the
\* call failed) and never raises; so /api/conditions never fails because of
\* an upstream failure.
C7_ToolsNeverRaise ==
    /\ (pc = "done" /\ op \in EBirdTools \cup WeatherTools) =>
            /\ ~resp.raised
            /\ upstream[1].outcome # "ok" => resp.error
    /\ (pc = "done" /\ op = "api_conditions") =>
            /\ resp.status = 200 /\ ~resp.escaped
            /\ upstream[1].outcome # "ok" => resp.body.conditions.error
            /\ upstream[2].outcome # "ok" => resp.body.forecast.error

C7_Witness ==
    /\ pc = "done" /\ op = "api_conditions"
    /\ upstream[1].outcome = "timeout" /\ upstream[2].outcome = "badshape"
    /\ resp.status = 200
    /\ resp.body.conditions.error /\ resp.body.forecast.error

C7_WitnessTool ==
    /\ pc = "done" /\ op = "get_rare_birds_nearby"
    /\ upstream[1].outcome = "badjson"
    /\ resp.error /\ ~resp.raised

(***************************************************************************)
(* Properties of the structured-output endpoints                           *)
(***************************************************************************)
\* A structured-output request whose agent run returned a reply text.
StructuredDone ==
    /\ pc = "done" /\ op \in {"api_tours", "api_area_targets"}
    /\ Len(upstream) = 1 /\ upstream[1].outcome = "ok"

\* The names of the items in the list the response carries.
ExtractedNames ==
    IF op = "api_tours" THEN MapSeq(resp.body.tours, LAMBDA t : t.title)
    ELSE MapSeq(resp.body.birds.items, LAMBDA b : Str(Get(b.d, "species", NullV)))

\* The response is the fallback: an empty tours list; an empty birds list
\* with the raw reply text.
IsFallback ==
    /\ resp.status = 200 /\ ~resp.escaped
    /\ op = "api_tours" => resp.body.tours = <<>>
    /\ op = "api_area_targets" =>
          /\ resp.body.birds.t = "list" /\ resp.body.birds.items = <<>>
          /\ "recommendations" \in DOMAIN resp.body
          /\ resp.body.recommendations = upstream[1].text

\* C8: for every reply text without a JSON object that carries the expected
\* list (no JSON, malformed JSON, JSON of another shape), a structured-output
\* request completes with the fallback and never with a failure response.
C8_BadReplyGivesFallback ==
    (StructuredDone /\ upstream[1].kind \in {"nojson", "malformed", "wrongshape"})
        => IsFallback

\* The part of C8 about text that is not JSON at all.
C8_NotJsonGivesFallback ==
    (StructuredDone /\ upstream[1].kind \in {"nojson", "malformed"}) => IsFallback

ReplyForms ==
    {"plain", "padded", "fenced", "fenced_json", "prose_before", "prose_after",
     "prose_both"}

\* C9: a valid object of the expected shape is extracted, the same, from a
\* reply that holds it in a fenced block, alone, or with prose before and/or
\* after it.
C9_SameObjectFromEveryForm ==
    (StructuredDone /\ upstream[1].kind = "valid" /\ upstream[1].form \in ReplyForms
        /\ (op = "api_area_targets" => Len(upstream[1].names) <= req.num_targets))
        => /\ resp.status = 200 /\ ~resp.escaped
           /\ ExtractedNames = upstream[1].names

\* What holds of C9: the tours endpoint in every form, the targets endpoint
\* when the reply is the object alone or in a fenced block.
C9_WhereItHolds ==
    (StructuredDone /\ upstream[1].kind = "valid" /\ upstream[1].form \in ReplyForms
        /\ (op = "api_area_targets" =>
                /\ Len(upstream[1].names) <= req.num_targets
                /\ upstream[1].form \in {"plain", "padded", "fenced", "fenced_json"}))
        => /\ resp.status = 200 /\ ~resp.escaped
           /\ ExtractedNames = upstream[1].names

(***************************************************************************)
(* Properties of the streaming chat endpoint                               *)
(***************************************************************************)
\* The text fragments among the first n chunks of the agent's stream.
Fragments(n) ==
    LET texts == SelectSeq(SubSeq(upstream.chunks, 1, n),
                           LAMBDA c : "content" \in DOMAIN c /\ c.content # "")
    IN  [i \in 1..Len(texts) |-> DataEvent(texts[i].content)]

StreamOver == pc = "done" /\ op = "chat_stream"

\* C10 as stated: the stream delivers the fragments in the order the agent
\* produced them and always ends with the sentinel event.
C10_AlwaysEndsWithSentinel ==
    StreamOver => resp = Fragments(Len(upstream.chunks)) \o <<DoneEvent>>

\* C10 as amended: the events sent so far are the fragments produced so far,
\* in the agent's order; a stream whose run completes ends with the sentinel
\* as its last event; a stream whose run (or get_agent) raises ends with one
\* error event and carries no sentinel.
C10_OrderedAndTerminated ==
    /\ (pc = "streaming" /\ op = "chat_stream") => resp = Fragments(upstream.at - 1)
    /\ (StreamOver /\ ~upstream.raises) =>
            resp = Fragments(Len(upstream.chunks)) \o <<DoneEvent>>
    /\ (StreamOver /\ upstream.raises) =>
            resp = Fragments(Len(upstream.chunks)) \o <<ErrorEvent>>

C10_Witness ==
    /\ StreamOver /\ ~upstream.raises
    /\ resp = <<DataEvent("b"), DataEvent("a"), DoneEvent>>
    /\ Len(upstream.chunks) = 3

C10_WitnessError ==
    /\ StreamOver /\ upstream.raises
    /\ resp = <<DataEvent("a"), ErrorEvent>>

(***************************************************************************)
(* C11: the input the chat endpoints hand to the agent                     *)
(***************************************************************************)
\* The handler has handed an input to agent.run.
ChatAsked == op \in {"chat", "chat_stream"} /\ Len(sent) = 1

HasContext(r) == Has(r, "context") /\ Len(r.context) > 0
HasHistory(r) == Has(r, "history") /\ Len(r.history) > 0

\* The lines of the input that carry the given tag, in the input's order.
LinesTagged(input, tag) == SelectSeq(input, LAMBDA l : l.tag = tag)

\* C11: the text given to the agent consists of the blocks context, history
\* and current message, those that are present, in that order, with one
\* blank line between successive blocks; a context or history that is absent
\* or empty gives no block; the current message is always the last block;
\* the history turns keep their order; chat and chat_stream build the same
\* text from the same request.
C11_InputIsBlocksInOrder ==
    ChatAsked =>
        LET input == sent[1].params.input
            blocks == (IF HasContext(req) THEN 1 ELSE 0)
                      + (IF HasHistory(req) THEN 1 ELSE 0) + 1
        IN  /\ input =
                  (IF HasContext(req)
                   THEN ContextBlock(req.context) \o <<BlankLine>> ELSE <<>>)
                  \o (IF HasHistory(req)
                      THEN HistoryBlock(req.history) \o <<BlankLine>> ELSE <<>>)
                  \o CurrentBlock(req.message)
            /\ input[Len(input)] = Line("current", "Current user message: ", req.message)
            /\ Len(LinesTagged(input, "blank")) = blocks - 1
            /\ Len(LinesTagged(input, "header")) = blocks - 1
            /\ HasHistory(req) =>
                   /\ Len(LinesTagged(input, "turn")) = Len(req.history)
                   /\ \A i \in 1..Len(req.history) :
                          LinesTagged(input, "turn")[i].b = req.history[i].content
            /\ ~HasHistory(req) => LinesTagged(input, "turn") = <<>>
            /\ ~HasContext(req) => LinesTagged(input, "item") = <<>>
            /\ chat_message(req) = input
            /\ chat_stream_message(req) = input

\* A streamed request with a two-item context and a three-turn history.
C11_Witness ==
    /\ ChatAsked /\ op = "chat_stream"
    /\ HasContext(req) /\ Len(req.context) = 2
    /\ HasHistory(req) /\ Len(req.history) = 3
    /\ Len(sent[1].params.input) = 10

\* A request whose context and history are both empty: only the current
\* message is handed over.
C11_WitnessEmpty ==
    /\ ChatAsked /\ op = "chat"
    /\ Has(req, "context") /\ req.context = <<>>
    /\ Has(req, "history") /\ req.history = <<>>
    /\ sent[1].params.input = CurrentBlock(req.message)

(***************************************************************************)
(* C12: the agent cache                                                    *)
(***************************************************************************)
\* The instance id held in the cache slot of a role, NoAgent when empty.
Slot(agent_type) == IF agent_type = TEAM THEN team.id ELSE agents[agent_type]

\* The handler has called agent.run on the instance get_agent returned.
RanAgent ==
    /\ Len(sent) >= 1
    /\ sent[Len(sent)].url = "agent.run"
    /\ "instance" \in DOMAIN sent[Len(sent)].params

\* C12: each role's instance is constructed at most once, at the first
\* request that needs it (its slot is empty then); once a slot is filled it
\* is never cleared or replaced; the instance a handler runs is the one held
\* in the role's slot, so later requests get the same instance.
C12_ConstructedOncePerRole ==
    /\ [](\A a \in AgentTypes :
            /\ built[a] <= 1
            /\ (built[a] = 0) = (Slot(a) = NoAgent))
    /\ [](RanAgent =>
            /\ sent[Len(sent)].params.instance = Slot(sent[Len(sent)].params.agent)
            /\ sent[Len(sent)].params.instance # NoAgent)
    /\ [][\A a \in AgentTypes :
            /\ built'[a] # built[a] =>
                   /\ Slot(a) = NoAgent
                   /\ built'[a] = built[a] + 1
                   /\ Slot(a)' # NoAgent
                   /\ pc = "idle"
            /\ Slot(a) # NoAgent => Slot(a)' = Slot(a)
            /\ team.id # NoAgent => team' = team]_vars

\* A later request for a role runs the instance that an earlier request
\* constructed.
C12_Witness ==
    /\ RanAgent
    /\ pc = "done" /\ op = "chat"
    /\ ~sent[1].params.fresh
    /\ sent[1].params.instance = 1
    /\ built[req.agent_type] = 1

(***************************************************************************)
(* C13: the endpoints that call an upstream API themselves                 *)
(***************************************************************************)
\* The credential each direct-call endpoint needs.
NeededKey ==
    [api_identify_upload |-> "openai_api_key",
     api_hotspots        |-> "ebird_api_key",
     api_rare_birds      |-> "ebird_api_key"]

\* A direct-call endpoint has answered a request while its credential was
\* not configured.
DirectWithoutKey ==
    /\ pc = "done"
    /\ op \in DOMAIN NeededKey
    /\ ~settings[NeededKey[op]]

\* C13: when the credential a direct-call endpoint needs is not configured,
\* the request fails with an error that names the missing credential and no
\* outbound HTTP call is made.
C13_MissingKeyFailsWithoutCall ==
    DirectWithoutKey =>
        /\ resp.status = 500
        /\ ~resp.escaped
        /\ resp.body = (IF NeededKey[op] = "openai_api_key"
                        THEN NoOpenAIKey ELSE NoEBirdKey)
        /\ sent = <<>>

\* The image upload answered without an OpenAI key.
C13_Witness ==
    /\ DirectWithoutKey /\ op = "api_identify_upload"
    /\ resp = HTTPException(500, NoOpenAIKey)
    /\ upstream = <<>>

\* The rare-birds endpoint answered without an eBird key.
C13_WitnessEBird ==
    /\ DirectWithoutKey /\ op = "api_rare_birds"
    /\ resp = HTTPException(500, NoEBirdKey)
    /\ sent = <<>>

(***************************************************************************)
(* C14: the status codes of failed requests                                *)
(***************************************************************************)
\* An endpoint has answered (the data tools answer an agent, not a client;
\* the streaming endpoint has sent status 200 before its first event).
EndpointDone ==
    /\ pc = "done"
    /\ op # "chat_stream"
    /\ "status" \in DOMAIN resp

\* C14 as stated: every failure an endpoint reports to the client carries
\* status 500; no other error status is ever produced.
C14_EveryFailureIs500 ==
    EndpointDone => resp.status \in {200, 500}

\* C14 as amended: a failure an endpoint signals carries status 500 and a
\* message string, with two exceptions: the area-based targets endpoint
\* rejects an empty species list with status 400, and only that request gets
\* a 400; the streaming chat endpoint signals a failure as an error event
\* inside its event stream, not with an error status.
C14_FailureStatuses ==
    /\ EndpointDone =>
            /\ resp.status \in {200, 400, 500}
            /\ resp.status # 200 => resp.body \in STRING
            /\ resp.status = 400 <=>
                    (op = "api_area_targets" /\ req.species = <<>> /\ ~resp.escaped)
    /\ (pc = "done" /\ op = "chat_stream") =>
            /\ upstream.raises <=> resp[Len(resp)] = ErrorEvent

\* The area-based targets endpoint rejected an empty species list.
C14_EmptySpeciesIs400 ==
    /\ EndpointDone /\ op = "api_area_targets"
    /\ req.species = <<>>
    /\ resp.status = 400

\* The chat endpoint failed with the generic error.
C14_Witness500 ==
    /\ EndpointDone /\ op = "chat"
    /\ resp.status = 500 /\ ~resp.escaped /\ resp.body = "Agent error"
    /\ Len(sent) = 1

(***************************************************************************)
(* C15: exceptions raised while a handler runs                             *)
(***************************************************************************)
\* C15 as stated: whatever raises while an endpoint runs (get_agent, the
\* agent run, the outbound HTTP call, parsing or reshaping the upstream
\* body) is caught inside the handler and answered with the generic failure
\* response; no exception leaves a handler.
C15_NoExceptionEscapes ==
    EndpointDone => ~resp.escaped

\* The hotspots endpoint got a body that is not the expected list, and the
\* exception of reshaping it left the handler.
C15_ReshapingEscapes ==
    /\ EndpointDone /\ op = "api_hotspots"
    /\ Len(sent) = 1
    /\ upstream[1].outcome # "ok"
    /\ resp.escaped

(***************************************************************************)
(* C16: get_taxonomy                                                       *)
(***************************************************************************)
\* A call of get_taxonomy that returned its list.
TaxonomyDone ==
    /\ pc = "done" /\ op = "get_taxonomy"
    /\ upstream[1].outcome = "ok"
    /\ ~resp.error

\* The name contains the query when both are written in lower case.
NameHas(name, query) ==
    \E i \in 1..Len(name) :
        /\ i + Len(query) - 1 <= Len(name)
        /\ \A k \in 1..Len(query) : LowerChar(name[i + k - 1]) = LowerChar(query[k])

\* The positions of the upstream entries whose common or scientific name
\* contains the query.
MatchingPositions(taxa, query) ==
    {i \in 1..Len(taxa) :
        \/ "comName" \in DOMAIN taxa[i] /\ NameHas(taxa[i].comName, query)
        \/ "sciName" \in DOMAIN taxa[i] /\ NameHas(taxa[i].sciName, query)}

\* C16: with a search query, every returned entry has a common or scientific
\* name containing the query case-insensitively, the entries are the first
\* matches in upstream order, and at most 20 are returned; without a query
\* the first entries in upstream order are returned, at most 50.
C16_TaxonomyFilteredAndCapped ==
    TaxonomyDone =>
        LET out   == resp.val
            taxa  == upstream[1].data
            query == req.search_query
            hits  == MatchingPositions(taxa, query)
        IN  IF query # <<>>
            THEN /\ Len(out) <= 20
                 /\ Len(out) = Min(Cardinality(hits), 20)
                 /\ \A j \in 1..Len(out) :
                        /\ NameHas(out[j].common_name, query)
                           \/ NameHas(out[j].scientific_name, query)
                        /\ \E i \in hits :
                               /\ Cardinality({k \in hits : k < i}) = j - 1
                               /\ out[j] = TaxonEntry(taxa[i])
            ELSE /\ Len(out) <= 50
                 /\ Len(out) = Min(Len(taxa), 50)
                 /\ \A j \in 1..Len(out) : out[j] = TaxonEntry(taxa[j])

\* A query written in another case than the names, with more than 20 matches
\* upstream, among them entries that do not match.
C16_Witness ==
    /\ TaxonomyDone
    /\ req.search_query = <<"c", "A">>
    /\ Cardinality(MatchingPositions(upstream[1].data, req.search_query)) > 20
    /\ Len(resp.val) = 20
    /\ 1 \notin MatchingPositions(upstream[1].data, req.search_query)

\* No query and more than 50 entries upstream.
C16_WitnessNoQuery ==
    /\ TaxonomyDone
    /\ req.search_query = <<>>
    /\ Len(upstream[1].data) > 50
    /\ Len(resp.val) = 50

(***************************************************************************)
(* C17: get_nearby_hotspots                                                *)
(***************************************************************************)
\* A call of get_nearby_hotspots that returned its list.
HotspotsDone ==
    /\ pc = "done" /\ op = "get_nearby_hotspots"
    /\ upstream[1].outcome = "ok"
    /\ ~resp.error

\* C17: for a max_results of at least 0, get_nearby_hotspots returns the
\* reshaped first min(max_results, length) upstream hotspots in upstream
\* order: never more than max_results, none reordered, none skipped.
C17_FirstHotspotsInOrder ==
    (HotspotsDone /\ req.max_results >= 0) =>
        LET out == resp.val
            hs  == upstream[1].data
        IN  /\ Len(out) <= req.max_results
            /\ Len(out) = Min(req.max_results, Len(hs))
            /\ \A j \in 1..Len(out) : out[j] = Hotspot(hs[j])

\* More hotspots upstream than asked for.
C17_Witness ==
    /\ HotspotsDone
    /\ req.max_results = 2
    /\ Len(upstream[1].data) > 2
    /\ Len(resp.val) = 2
    /\ resp.val[1].lat = 1
    /\ "lat" \notin DOMAIN upstream[1].data[2]

(***************************************************************************)
(* C18: the members of the team                                            *)
(***************************************************************************)
\* C18 as stated: the team get_agent constructs has one member for each of
\* the nine specialist roles, so every role a request can select directly
\* can also be reached through the team.
C18_TeamHasEverySpecialist ==
    team.id # NoAgent => Specialists \subseteq team.members

\* A chat request was handed to the team while the team has no tours member.
C18_TeamWithoutTours ==
    /\ pc = "done" /\ op = "chat" /\ Len(sent) = 1
    /\ req.agent_type = TEAM
    /\ sent[1].params.instance = team.id
    /\ "tours" \notin team.members
    /\ Cardinality(team.members) = 8

(***************************************************************************)
(* C20: what a request leaves behind                                       *)
(***************************************************************************)
\* POST /api/chat has answered with a ChatResponse.
ChatAnswered ==
    /\ pc = "done" /\ op = "chat"
    /\ Len(sent) = 1
    /\ resp.status = 200

\* C20: a step of a handler changes no process-wide state except that it
\* fills cache slots that were empty (the settings stay as they are, a
\* filled slot keeps its instance); the input built for the agent and the
\* session id of the response are determined by the request being handled
\* alone (its own message, context, history and session id, or a new id when
\* it carries none), whatever the requests handled before it were; once the
\* response is sent nothing of the request is kept.
C20_OnlyCacheSlotsFilled ==
    /\ [][/\ settings' = settings
          /\ \A a \in AgentTypes : Slot(a)' # Slot(a) => Slot(a) = NoAgent
          /\ team' # team => team = NoTeam]_vars
    /\ [](ChatAsked =>
            sent[1].params.input =
                Joined((IF HasContext(req) THEN <<ContextBlock(req.context)>> ELSE <<>>)
                       \o (IF HasHistory(req) THEN <<HistoryBlock(req.history)>> ELSE <<>>)
                       \o <<CurrentBlock(req.message)>>, <<BlankLine>>))
    /\ [](ChatAnswered =>
            resp.body.session_id =
                (IF "session_id" \in DOMAIN req /\ req.session_id # ""
                 THEN req.session_id ELSE upstream[1].uuid))
    /\ [](pc = "idle" => req = <<>> /\ upstream = <<>> /\ sent = <<>> /\ resp = <<>>)

\* A chat request that carries its own session id, handled by an instance
\* that an earlier request left in the cache.
C20_Witness ==
    /\ ChatAnswered
    /\ ~sent[1].params.fresh
    /\ "session_id" \in DOMAIN req /\ req.session_id = "s1"
    /\ resp.body.session_id = "s1"

\* A chat request without a session id, after an earlier request: it gets a
\* new id.
C20_WitnessNewId ==
    /\ ChatAnswered
    /\ ~sent[1].params.fresh
    /\ "session_id" \notin DOMAIN req
    /\ resp.body.session_id = upstream[1].uuid

(***************************************************************************)
(* C21: short morning windows                                              *)
(***************************************************************************)
\* The samples of a metric that fall into the morning window of that call.
CondWindow(metric) ==
    LET hourly == Get(upstream[1].data, "hourly", <<>>)
        series == Get(hourly, metric, <<>>)
    IN  SubSeq(series, 7, IF Len(series) < 10 THEN Len(series) ELSE 10)

\* C21 as stated: a metric whose morning window holds fewer than 4 samples
\* is reported with its default (temperature 15, wind 10, precipitation 0,
\* clouds 50, here in tenths); a window of 1 to 3 samples is never averaged.
C21_ShortWindowGivesDefault ==
    CondDone =>
        /\ Len(CondWindow("temperature_2m")) < 4 =>
               resp.val.conditions.temperature_c = 150
        /\ Len(CondWindow("wind_speed_10m")) < 4 =>
               resp.val.conditions.wind_speed_kmh = 100
        /\ Len(CondWindow("precipitation_probability")) < 4 =>
               resp.val.conditions.precipitation_chance = 0
        /\ Len(CondWindow("cloud_cover")) < 4 =>
               resp.val.conditions.cloud_cover_percent = 500

\* A wind series that ends after two samples of the window: their average,
\* 20.5, is reported, not the default 10.
C21_PartialWindowAveraged ==
    /\ CondDone
    /\ CondWindow("wind_speed_10m") = <<20, 21>>
    /\ resp.val.conditions.wind_speed_kmh = 205

(***************************************************************************)
(* C22: sightings without coordinates                                      *)
(***************************************************************************)
\* The upstream sighting carries both coordinates.
Located(obs) == "lat" \in DOMAIN obs /\ "lng" \in DOMAIN obs

\* C22 as stated: a sighting for which no distance can be computed (its
\* latitude or longitude is missing) is placed after every sighting that has
\* a computed distance, as if its distance were 999.
C22_UnlocatedSortsLast ==
    RareDone =>
        \A i, j \in 1..Len(upstream[1].data) :
            (~Located(upstream[1].data[i]) /\ Located(upstream[1].data[j]))
                => PlaceOf(j) < PlaceOf(i)

\* A sighting without coordinates got distance 0 and stands before a located
\* sighting that is 11.1 km away.
C22_UnlocatedSortsFirst ==
    /\ RareDone
    /\ Len(resp.val) = 2
    /\ ~Located(upstream[1].data[2]) /\ Located(upstream[1].data[1])
    /\ resp.val[1].species = upstream[1].data[2].comName
    /\ resp.val[1].distance_km = 0
    /\ resp.val[2].distance_km = 111

(***************************************************************************)
(* C23: concurrent first requests for a role                               *)
(***************************************************************************)
\* A call for the role is between its test of the slot and its store.
Racing(agent_type) ==
    \E t \in Callers :
        calls[t].role = agent_type /\ calls[t].at \in {"construct", "store"}

\* C23: under every interleaving of get_agent calls, each call that returns
\* returns a constructed instance of the role it asked for; a slot only ever
\* holds an instance made by its own role's constructor, written by a call
\* for that role, the last write replacing the earlier one; a filled slot is
\* never emptied; once the calls that found the slot empty have finished,
\* the slot keeps its instance, every later call returns it and nothing is
\* constructed again: an instance is constructed only by a call that found
\* the slot empty, so at most one per racing caller.
C23_RaceLeavesOneInstance ==
    /\ [](\A t \in Callers :
            calls[t].at = "returned" =>
                /\ calls[t].result.role = calls[t].role
                /\ calls[t].result.id \in 1..built[calls[t].role])
    /\ [](\A a \in AgentTypes : Slot(a) \in 0..built[a] /\ built[a] <= MaxCallers)
    /\ [][\A a \in AgentTypes :
            /\ Slot(a)' # Slot(a) =>
                   \E t \in Callers :
                       /\ calls[t].at = "store" /\ calls'[t].at = "return"
                       /\ calls[t].role = a /\ calls[t].local.role = a
                       /\ Slot(a)' = calls[t].local.id
            /\ Slot(a) # NoAgent => Slot(a)' # NoAgent
            /\ built'[a] # built[a] => (Racing(a) /\ built'[a] = built[a] + 1)
            /\ (Slot(a) # NoAgent /\ ~Racing(a)) =>
                   /\ Slot(a)' = Slot(a)
                   /\ built'[a] = built[a]
                   /\ \A t \in Callers :
                          (calls'[t].at = "returned" /\ calls[t].at = "return"
                           /\ calls[t].role = a) => calls'[t].result.id = Slot(a)]_vars
    /\ [][\A t \in Callers :
            (calls[t].at = "store" /\ calls'[t].at = "return") =>
                Slot(calls[t].role)' = calls[t].local.id]_vars

\* Two callers raced for the identification agent: both constructed, the
\* first returned its own instance before the second overwrote the slot, and
\* the slot holds the second instance.
C23_Witness ==
    /\ calls[1].at = "returned" /\ calls[2].at = "returned"
    /\ calls[1].role = "identification" /\ calls[2].role = "identification"
    /\ built["identification"] = 2
    /\ calls[1].result.id = 1 /\ calls[2].result.id = 2
    /\ agents["identification"] = 2

\* A caller returned the instance another caller constructed and stored
\* after it.
C23_WitnessOverwritten ==
    /\ calls[1].at = "returned"
    /\ calls[1].role = TEAM
    /\ calls[1].local.id = 1
    /\ calls[1].result.id = 2
    /\ team.id = 2

(***************************************************************************)
(* C24: the order of the calls of the alerts endpoint                      *)
(***************************************************************************)
AlertsDone == pc = "done" /\ op = "api_alerts"

\* The positions in sent of the calls to the given target.
CallsTo(url) == {i \in 1..Len(sent) : sent[i].url = url}

\* The direct eBird attempt of that request gave at least one sighting.
AlertsGotSightings ==
    /\ settings.ebird_api_key
    /\ upstream[1].outcome = "ok"
    /\ Len(upstream[1].data) > 0

C24_WitnessShortCircuit ==
    /\ AlertsDone
    /\ settings.openai_api_key
    /\ AlertsGotSightings
    /\ Len(sent) = 1
    /\ resp.status = 200

(***************************************************************************)
(* C25: session id and agent name of a chat response                       *)
(***************************************************************************)
\* The names the agents are constructed with, by role.
NameOfRole ==
    [identification |-> "Identification Agent",
     behavior       |-> "Behavior Interpreter Agent",
     location       |-> "Location Scout Agent",
     journal        |-> "Journal Agent",
     coach          |-> "Learning Coach Agent",
     community      |-> "Community Connector Agent",
     tours          |-> "Birding Tours Agent",
     migration      |-> "Migration Trends Agent",
     lifelist       |-> "Life List Coach",
     team           |-> "BirdWatch AI Team"]

\* C25: in every successful chat response, session_id is the request's
\* session_id when the request carries a non-empty one and a newly generated
\* id otherwise, and agent_used is the name of the agent that the request's
\* agent_type selects.
C25_SessionAndAgentOfRequest ==
    ChatAnswered =>
        /\ ("session_id" \in DOMAIN req /\ req.session_id # "")
               => resp.body.session_id = req.session_id
        /\ ("session_id" \notin DOMAIN req \/ req.session_id = "")
               => (resp.body.session_id = upstream[1].uuid
                   /\ resp.body.session_id \notin {"", "s1"})
        /\ resp.body.agent_used = NameOfRole[req.agent_type]
        /\ sent[1].params.agent = req.agent_type

\* A request for the life-list coach without a session id.
C25_Witness ==
    /\ ChatAnswered
    /\ req.agent_type = "lifelist"
    /\ "session_id" \notin DOMAIN req
    /\ resp.body.agent_used = "Life List Coach"
    /\ resp.body.session_id = "u1"

\* A request that carries an empty session id gets a new one.
C25_WitnessEmptyId ==
    /\ ChatAnswered
    /\ "session_id" \in DOMAIN req /\ req.session_id = ""
    /\ resp.body.session_id = "u1"

(***************************************************************************)
(* C26: the default recommendation and the score                           *)
(***************************************************************************)
\* The call returned the default recommendation.
CondDefaultMessage ==
    /\ CondDone
    /\ \E i \in 1..Len(resp.val.recommendations) :
           resp.val.recommendations[i] = "Great conditions for birding!"

\* C26: whenever get_birding_conditions returns the default recommendation,
\* the returned score is at least 75 and the rating is "Good" or
\* "Excellent", never "Fair" or "Poor".
C26_DefaultMessageMeansGoodScore ==
    CondDefaultMessage =>
        /\ resp.val.score >= 75
        /\ resp.val.rating \in {"Good", "Excellent"}
        /\ resp.val.rating \notin {"Fair", "Poor"}

\* The lowest score that comes with the default recommendation: wind 20,
\* precipitation 40 and clouds 95 cost 5, 10 and 10.
C26_Witness ==
    /\ CondDefaultMessage
    /\ CondAvg.wind = 12 * 20 /\ CondAvg.precip = 12 * 40 /\ CondAvg.clouds = 12 * 95
    /\ resp.val.score = 75
    /\ resp.val.rating = "Good"

(***************************************************************************)
(* C27: the "No API keys configured" failure of the alerts endpoint        *)
(***************************************************************************)
\* The alerts request ended in the failure "No API keys configured".
AlertsNoKeysFailure ==
    /\ AlertsDone
    /\ resp.status = 500 /\ ~resp.escaped
    /\ resp.body = NoKeys

\* C27 as stated: the alerts endpoint answers "No API keys configured" only
\* when neither the eBird key nor the OpenAI key is configured; when the
\* eBird key is configured and the eBird call succeeds, the request does not
\* end in that failure.
C27_NoKeysOnlyWithoutKeys ==
    /\ AlertsNoKeysFailure =>
           (~settings.ebird_api_key /\ ~settings.openai_api_key)
    /\ (AlertsDone /\ settings.ebird_api_key /\ Len(sent) >= 1
            /\ upstream[1].outcome = "ok") => ~AlertsNoKeysFailure

\* The eBird key is configured, the eBird call succeeded with an empty list,
\* and the request ended in "No API keys configured".
C27_NoKeysDespiteKey ==
    /\ AlertsNoKeysFailure
    /\ settings.ebird_api_key /\ ~settings.openai_api_key
    /\ Len(sent) = 1
    /\ upstream[1].outcome = "ok" /\ upstream[1].data = <<>>

(***************************************************************************)
(* C28: count and birds in the rare-bird responses                         *)
(***************************************************************************)
\* A direct rare-bird response: /api/locations/rare-birds, or the eBird
\* branch of /api/community/alerts.
RareBirdsAnswered ==
    /\ pc = "done"
    /\ op \in {"api_rare_birds", "api_alerts"}
    /\ resp.status = 200
    /\ "birds" \in DOMAIN resp.body

\* C28 as stated: in the responses of the direct rare-bird endpoints, count
\* equals the number of entries of the returned birds list, for every
\* upstream list length.
C28_CountIsLengthOfBirds ==
    RareBirdsAnswered => resp.body.count = Len(resp.body.birds)

\* The alerts endpoint got 21 sightings: birds holds those of the first 20
\* that have both coordinates, neither of them 0, and count is 21.
C28_AlertsCountsUpstream ==
    /\ RareBirdsAnswered /\ op = "api_alerts"
    /\ Len(upstream[1].data) = 21
    /\ Len(resp.body.birds) = 5
    /\ resp.body.count = 21

\* In /api/locations/rare-birds the two agree, also beyond the cap of 20.
C28_RareBirdsCountAgrees ==
    (RareBirdsAnswered /\ op = "api_rare_birds") =>
        /\ resp.body.count = Len(resp.body.birds)
        /\ resp.body.count = Min(Len(upstream[1].data), 20)

(***************************************************************************)
(* C29: a rejected area-based targets request                              *)
(***************************************************************************)
\* C29 as stated: an area-based targets request that is rejected because
\* its species list is empty leaves the process state as it was: no agent is
\* constructed or put into the cache, and no agent run is started.
C29_RejectionChangesNothing ==
    [][(/\ pc = "idle" /\ pc' = "done"
        /\ op' = "api_area_targets"
        /\ resp'.status = 400)
       => (/\ agents' = agents /\ team' = team /\ built' = built
           /\ settings' = settings
           /\ sent' = <<>>)]_vars

\* The first request of the process was rejected for its empty species
\* list, and the life-list coach has been constructed and cached.
C29_RejectedButCached ==
    /\ pc = "done" /\ op = "api_area_targets"
    /\ req.species = <<>>
    /\ resp.status = 400
    /\ sent = <<>>
    /\ built["lifelist"] = 1 /\ agents["lifelist"] = 1

(***************************************************************************)
(* C30: the radius the rare-bird responses state                           *)
(***************************************************************************)
\* The radius printed in the text of a direct rare-bird response.
StatedRadius ==
    IF op = "api_rare_birds" THEN resp.body.rare_birds.within
    ELSE resp.body.alerts.within

\* C30 as stated: the radius stated in the response text ("within N km")
\* equals the radius that was sent to the upstream API, for every requested
\* distance_km.
C30_StatedRadiusIsSearchedRadius ==
    RareBirdsAnswered => StatedRadius = sent[1].params.dist

\* 80 km were asked for: 50 were sent upstream and the text says 80.
C30_StatesRequestedRadius ==
    /\ RareBirdsAnswered
    /\ req.distance_km = 80
    /\ sent[1].params.dist = 50
    /\ StatedRadius = 80

\* Up to 50 km the two agree.
C30_AgreesUpToLimit ==
    (RareBirdsAnswered /\ req.distance_km <= 50) => StatedRadius = sent[1].params.dist

=============================================================================
